---- MODULE Spec2Model ----
(***************************************************************************)
(* Model of the XMPP protocol engine of zond/gmail (package xmpp,          *)
(* src/xmpp/xmpp.go): Client.Start, Client.connect, Client.init,           *)
(* Client.handleMail, Client.Close, next and nextStart; of its pure        *)
(* functions xmlEscape and saslDigestResponse (SpecPure); of the parse of  *)
(* the DIGEST-MD5 challenge (SpecChallenge) and of the loop of nextStart   *)
(* token by token (SpecTokens); and of the Client of package gmail         *)
(* (src/unnamed/part_000), whose Recv reads the decoder beside handleMail  *)
(* (SpecGmail).  SpecClose adds the user's call of Close to Spec, SpecFair *)
(* adds fairness of the dial and of the handshake.                         *)
(*                                                                         *)
(* A transport is a positive integer; 0 is the nil connection.  What the   *)
(* server delivers at a read is one record of Reads(c): either a transport *)
(* error (field err non-empty) or one XML element.  Error values are the   *)
(* token sequences of their messages, so that strings.Contains and         *)
(* fmt.Errorf act on what the messages say.                                *)
(***************************************************************************)
EXTENDS Integers, Sequences, FiniteSets, TLC

VARIABLES
    conn,          \* Client.conn: the transport in use (0 is nil)
    p,             \* Client.p: the transport the decoder reads from (0 is nil)
    jid,           \* Client.jid
    user,          \* Client.user
    errorHandler,  \* Client.errorHandler
    mailHandler,   \* Client.mailHandler
    closed,        \* the transports on which Close has been called
    dials,         \* number of net.Dial calls made
    pc,            \* where each task stands
    orig,          \* per handleMail task: the decode error it is restarting after
                   \* (<<>> outside a restart)
    tries,         \* per handleMail task: number of calls of Start it has made
    offered,       \* init's f.Mechanisms.Mechanism while the mechanism loop runs
                   \* over it (<<>> once init has gone past the loop)
    rx,            \* what the latest read of handleMail returned
    startErr,      \* what the user's call of Start returned (<<>> is nil)
    errs,          \* the errors passed to errorHandler, in order
    mails,         \* number of calls of mailHandler
    log,           \* what connect and init did on the latest dial, in order
    out,           \* what the latest iteration of handleMail did, in order
    call,          \* a call of xmlEscape or saslDigestResponse: its arguments
                   \* and what it returned
    recv,          \* package gmail: the call of Client.Recv by the user
    imapc          \* package gmail: Client.imapc, nil or an IMAP client

client == <<conn, p, jid, user, errorHandler, mailHandler, closed, dials,
            pc, orig, tries, offered, rx, startErr, errs, mails, log, out>>

vars == <<client, call, recv, imapc>>

(***************************************************************************)
(* Bounds.                                                                 *)
(***************************************************************************)
\* number of net.Dial calls in one run (the first Start and the reconnections)
MaxDial == 2
\* number of elements carrying a new-mail marker that the server sends
MaxMail == 2
\* longest list of SASL mechanisms the server offers
MaxMech == 2
\* longest argument of xmlEscape, in bytes
MaxLen == 3
\* largest number of directives in a DIGEST-MD5 challenge
MaxTok == 2
\* largest number of tokens of a stream before its end
MaxStream == 3

(***************************************************************************)
(* Program constants.                                                      *)
(***************************************************************************)
nsStream == "http://etherx.jabber.org/streams"
nsTLS == "urn:ietf:params:xml:ns:xmpp-tls"
nsSASL == "urn:ietf:params:xml:ns:xmpp-sasl"
nsBind == "urn:ietf:params:xml:ns:xmpp-bind"
nsClient == "jabber:client"
nsNotify == "google:mail:notify"

\* the value of a nil func field, and of a func field that is set
NilFunc == "nil"
DefaultFunc == "func"

(***************************************************************************)
(* Tasks: 0 is the caller of Start, t >= 1 is the t-th goroutine running   *)
(* handleMail.                                                             *)
(***************************************************************************)
Tasks == 0 .. MaxDial
Loops == 1 .. MaxDial

(***************************************************************************)
(* Account identifiers: the "@"-separated parts of Client.user.            *)
(***************************************************************************)
Account == <<"user", "domain">>
BadAccount == <<"nouser">>
Users == {Account, BadAccount}

\* strings.SplitN(self.user, "@", 2) for identifiers of at most two parts
SplitUser(u) == u

\* the identifier as one string, as %v prints it
UserStr(u) == IF Len(u) = 2 THEN "user@domain" ELSE "nouser"

Jid1 == "user@domain/res1"
Jid2 == "user@domain/res2"
Jids == {Jid1, Jid2}

(***************************************************************************)
(* What the server can put on the wire.                                    *)
(***************************************************************************)
MechNames == {"PLAIN", "DIGEST-MD5", "X-OAUTH2"}

MechLists == UNION {[1 .. n -> MechNames] : n \in 0 .. MaxMech}

\* an element with every field at its zero value
El(space, local) ==
    [err |-> <<>>, space |-> space, local |-> local, bad |-> "",
     from |-> "", to |-> "", id |-> "", type |-> "",
     child |-> "none", jid |-> "", feats |-> <<>>,
     mechs |-> <<>>, any |-> "", b64 |-> TRUE]

\* a failed read of the transport
TErr(msg) == [El("", "") EXCEPT !.err = msg]

ErrReset == <<"read", "tcp:", "connection", "reset", "by", "peer">>
ErrClosed == <<"use", "of", "closed", "network", "connection">>
ErrTimeout == <<"read", "tcp:", "i/o", "timeout">>

TransportErrors == {TErr(ErrReset), TErr(ErrTimeout)}

FeatureLists == {<<>>, <<"http://jabber.org/protocol/disco#info">>,
                 <<"http://jabber.org/protocol/disco#info", nsNotify>>}

\* the children an <iq> carries: none, <bind>, <query> or <new-mail>
IQChildren ==
    {[child |-> "none", jid |-> "", feats |-> <<>>],
     [child |-> "new-mail", jid |-> "", feats |-> <<>>]}
    \cup {[child |-> "bind", jid |-> j, feats |-> <<>>] : j \in Jids}
    \cup {[child |-> "query", jid |-> "", feats |-> f] : f \in FeatureLists}

IQs ==
    {[El(nsClient, "iq") EXCEPT !.from = f, !.to = t, !.id = i, !.type = ty,
                                !.child = c.child, !.jid = c.jid,
                                !.feats = c.feats] :
        f \in {"user@domain", "domain"}, t \in {""} \cup Jids,
        i \in {"mail-request-1", "m2"}, ty \in {"result", "set"},
        c \in IQChildren}

OtherElements ==
    {El(nsStream, "stream"), El(nsStream, "error"),
     El(nsSASL, "success"), El(nsSASL, "challenge"),
     [El(nsSASL, "challenge") EXCEPT !.b64 = FALSE],
     El(nsTLS, "starttls"),
     El(nsClient, "message"), El(nsClient, "presence"),
     El("urn:unknown", "foo"), El("urn:unknown", "closed"),
     [El(nsClient, "iq") EXCEPT !.bad = "closed"],
     [El(nsClient, "iq") EXCEPT !.bad = "EOF"],
     [El(nsSASL, "success") EXCEPT !.bad = "EOF"]}
    \cup {[El(nsSASL, "failure") EXCEPT !.any = a] :
             a \in {"not-authorized", "aborted"}}
    \cup {[El(nsStream, "features") EXCEPT !.mechs = m] : m \in MechLists}

Elements == IQs \cup OtherElements

\* what a read of transport c can return
Reads(c) == IF c \in closed THEN {TErr(ErrClosed)}
            ELSE Elements \cup TransportErrors

(***************************************************************************)
(* Errors are the token sequences of their messages.                       *)
(***************************************************************************)
NoErr == <<>>

\* strings.Contains(err.Error(), w), for a word w
Contains(e, w) == \E i \in 1 .. Len(e) : e[i] = w

\* a test that also takes a timeout for a reset
IsResetLikeOrTimeout(e) ==
    Contains(e, "closed") \/ Contains(e, "reset") \/ Contains(e, "timeout")

\* the test of handleMail for a connection that was closed or reset
IsResetLike(e) == Contains(e, "closed") \/ Contains(e, "reset")

\* fmt.Errorf("While trying to restart after %v: %v", err, e)
RestartError(err, e) ==
    <<"While", "trying", "to", "restart", "after">> \o err \o <<":">> \o e

\* the error of the XML decoder for a malformed element
SyntaxError(bad) ==
    IF bad = "closed"
    THEN <<"XML", "syntax", "error:", "element", "<a>", "closed", "by", "</b>">>
    ELSE <<"XML", "syntax", "error:", "unexpected", "EOF">>

(***************************************************************************)
(* nextStart: the next start element, or the error of the read.  An        *)
(* end-of-document is not a result: the function keeps reading.            *)
(***************************************************************************)
nextStart(r) ==
    IF r.err # NoErr
    THEN [err |-> r.err, space |-> "", local |-> ""]
    ELSE [err |-> NoErr, space |-> r.space, local |-> r.local]

\* the (namespace, local name) pairs of the switch of next
Registered ==
    {<<nsStream, "features">>, <<nsStream, "error">>,
     <<nsTLS, "starttls">>, <<nsTLS, "proceed">>, <<nsTLS, "failure">>,
     <<nsSASL, "mechanisms">>, <<nsSASL, "challenge">>, <<nsSASL, "response">>,
     <<nsSASL, "abort">>, <<nsSASL, "success">>, <<nsSASL, "failure">>,
     <<nsBind, "bind">>,
     <<nsClient, "message">>, <<nsClient, "presence">>, <<nsClient, "iq">>,
     <<nsClient, "error">>}

\* p.DecodeElement(nv, &se) for the value next allocates for the element r
DecodeAllocated(r) ==
    IF r.space = nsSASL /\ r.local \in {"challenge", "response"}
    THEN <<"non-pointer", "passed", "to", "Unmarshal">>
    ELSE IF r.space = nsTLS /\ r.local = "starttls"
    THEN <<"expected", "element", "<starttls>", "in", "name", "space",
           ":ietf:params:xml:ns:xmpp-tls", "but", "have", r.space>>
    ELSE IF r.bad # "" THEN SyntaxError(r.bad)
    ELSE NoErr

(***************************************************************************)
(* next: the qualified name and the decoded value of the next element.     *)
(* The result has the zero name and no value (ok = FALSE) on an error.     *)
(***************************************************************************)
NextFail(e) == [err |-> e, ok |-> FALSE, space |-> "", local |-> "", v |-> El("", "")]

\* a next that passes over an element it has no type for
nextIgnoresUnknown(r) ==
    LET se == nextStart(r) IN
    IF se.err # NoErr THEN NextFail(se.err)
    ELSE IF <<se.space, se.local>> \notin Registered THEN NextFail(NoErr)
    ELSE IF DecodeAllocated(r) # NoErr THEN NextFail(DecodeAllocated(r))
    ELSE [err |-> NoErr, ok |-> TRUE, space |-> se.space, local |-> se.local, v |-> r]

next(r) ==
    LET se == nextStart(r) IN
    IF se.err # NoErr THEN NextFail(se.err)
    ELSE IF <<se.space, se.local>> \notin Registered
    THEN NextFail(<<"unexpected", "XMPP", "message", se.space, "<", se.local, "/>">>)
    ELSE IF DecodeAllocated(r) # NoErr THEN NextFail(DecodeAllocated(r))
    ELSE [err |-> NoErr, ok |-> TRUE, space |-> se.space, local |-> se.local, v |-> r]

\* p.DecodeElement(&v, nil) for a struct v whose XMLName is (space, local)
DecodeStruct(r, space, local) ==
    IF r.err # NoErr THEN r.err
    ELSE IF r.local # local
    THEN <<"expected", "element", "type", local, "but", "have", r.local>>
    ELSE IF r.space # space
    THEN <<"expected", "element", local, "in", "name", "space", space,
           "but", "have", r.space>>
    ELSE IF r.bad # "" THEN SyntaxError(r.bad)
    ELSE NoErr

\* p.DecodeElement(&s, nil) for a string s: the text of whatever element comes
DecodeString(r) ==
    IF r.err # NoErr THEN r.err
    ELSE IF r.bad # "" THEN SyntaxError(r.bad)
    ELSE NoErr

\* base64.StdEncoding.DecodeString of the text of the element
Base64Error(r) ==
    IF r.b64 THEN NoErr ELSE <<"illegal", "base64", "data", "at", "input", "byte", "0">>

(***************************************************************************)
(* Events of the log: task t did ev on transport c, with detail s.         *)
(***************************************************************************)
E(t, ev, c, s) == [t |-> t, ev |-> ev, c |-> c, s |-> s]

\* fmt.Fprintf(self.conn, ...) of the stanza s
Send(t, s) == E(t, "send", conn, s)

\* one element or one error taken from the decoder, noting a failed read
Recv(t, r) == E(t, "recv", p, IF r.err # NoErr THEN <<"read-error">> ELSE <<>>)

\* the same, noting what came: at the AuthResult step the name of the
\* element, the sub-element of a <failure> and whether the element is
\* malformed, at the ResourceBind step the jid of the <bind> of the <iq>, if
\* it carries one
RecvAuth(t, r) == E(t, "recv", p, <<"auth", r.space, r.local, r.any, r.bad>>)
RecvBind(t, r) ==
    E(t, "recv", p, IF r.err # NoErr THEN <<"read-error">>
                    ELSE IF r.child = "bind" THEN <<"bind", r.jid>>
                    ELSE <<"no-bind">>)

\* the same at the EnableNotifications, CapabilityCheck and Subscribe steps,
\* noting the element that came: whether the read failed, its name, whether
\* it is malformed, its attributes and the features of its <query>
ReadError(r) == IF r.err # NoErr THEN "read-error" ELSE ""
RecvSetting(t, r) ==
    E(t, "recv", p, <<"setting", ReadError(r), r.space, r.local, r.bad, r.to, r.type>>)
RecvDisco(t, r) ==
    E(t, "recv", p, <<"disco", ReadError(r), r.space, r.local, r.bad,
                      r.from, r.to, r.type, r.feats>>)
RecvSubscribe(t, r) ==
    E(t, "recv", p, <<"subscribe", ReadError(r), r.space, r.local, r.bad,
                      r.from, r.to, r.id, r.type>>)

StreamOpen == <<"stream:stream">>
AuthPlain == <<"auth", "PLAIN">>
AuthDigest == <<"auth", "DIGEST-MD5">>
DigestResponse == <<"response", "digest">>
EmptyResponse == <<"response">>
BindRequest == <<"iq", "set", "bind">>
SettingRequest == <<"iq", "set", "usersetting">>
DiscoRequest(domain) == <<"iq", "get", "disco#info", domain>>
MailRequest(from, to) == <<"iq", "get", "mail-notify", from, to, "mail-request-1">>
ResultReply(from, to, id) == <<"iq", "result", from, to, id>>

\* an <iq> as %v prints it in an error message (abridged to its name)
IQFields(v) == <<"&{" \o v.local \o "}">>

(***************************************************************************)
(* The state after New(user, password).                                    *)
(***************************************************************************)
New ==
    /\ conn = 0
    /\ p = 0
    /\ jid = ""
    /\ user \in Users
    /\ errorHandler = DefaultFunc
    /\ mailHandler = DefaultFunc
    /\ closed = {}
    /\ dials = 0
    /\ pc = [t \in Tasks |-> IF t = 0 THEN "new" ELSE "idle"]
    /\ orig = [t \in Loops |-> NoErr]
    /\ tries = [t \in Loops |-> 0]
    /\ offered = <<>>
    /\ rx = El("", "")
    /\ startErr = NoErr
    /\ errs = <<>>
    /\ mails = 0
    /\ log = <<>>
    /\ out = <<>>

\* no call of xmlEscape or saslDigestResponse is looked at
NoCall == [fn |-> "", args |-> <<>>, n |-> 0, once |-> <<>>, res |-> <<>>, by |-> ""]

\* package gmail: Recv has not been called
NoRecv == [pc |-> "idle", got |-> El("", ""), n |-> 0, ret |-> ""]

\* package gmail: the values of Client.imapc
NilClient == "nil"
ImapClient == "imap"

Init == New /\ call = NoCall /\ recv = NoRecv /\ imapc = NilClient

config == <<user, errorHandler, mailHandler>>

\* a Start whose error reaches errorHandler without the error it follows
StartReturnsErrorUnwrapped(t, e) ==
    /\ pc' = [pc EXCEPT ![t] = "done"]
    /\ IF t = 0
       THEN startErr' = e /\ errs' = errs
       ELSE startErr' = startErr /\ errs' = Append(errs, e)

\* a handleMail that goes on reading after it reported the failed restart
StartReturnsErrorKeepsLooping(t, e) ==
    /\ pc' = [pc EXCEPT ![t] = IF t = 0 THEN "done" ELSE "loop"]
    /\ IF t = 0
       THEN startErr' = e /\ errs' = errs
       ELSE startErr' = startErr /\ errs' = Append(errs, RestartError(orig[t], e))

\* a Start whose failure ends the handleMail that called it without a call of
\* errorHandler
StartReturnsErrorSilently(t, e) ==
    /\ pc' = [pc EXCEPT ![t] = "done"]
    /\ IF t = 0
       THEN startErr' = e /\ errs' = errs
       ELSE startErr' = startErr /\ errs' = errs

(***************************************************************************)
(* Start returns the error e in task t.  The user's call hands it to the   *)
(* user; the call made by handleMail hands the wrapped error to            *)
(* errorHandler, and handleMail returns.                                   *)
(***************************************************************************)
StartReturnsError(t, e) ==
    /\ pc' = [pc EXCEPT ![t] = "done"]
    /\ IF t = 0
       THEN startErr' = e /\ errs' = errs
       ELSE startErr' = startErr /\ errs' = Append(errs, RestartError(orig[t], e))

\* a failure of init after which connect leaves the transport open
InitFailsKeepsOpen(t, e, evs) ==
    /\ closed' = closed
    /\ log' = log \o evs \o <<E(t, "init-err", conn, e)>>
    /\ StartReturnsError(t, e)
    /\ UNCHANGED <<conn, p, jid, dials, orig, tries, rx, mails, out, config, call, recv, imapc>>

\* init returns the error e after the events evs: connect closes the
\* transport and Start returns e
InitFails(t, e, evs) ==
    /\ closed' = closed \cup {conn}
    /\ log' = log \o evs \o <<E(t, "init-err", conn, e), E(t, "close", conn, <<>>)>>
    /\ StartReturnsError(t, e)
    /\ UNCHANGED <<conn, p, jid, dials, orig, tries, rx, mails, out, config, call, recv, imapc>>

\* init goes on to its next read after the events evs
Goes(t, to, evs) ==
    /\ pc' = [pc EXCEPT ![t] = to]
    /\ log' = log \o evs
    /\ UNCHANGED <<conn, p, jid, closed, dials, orig, tries, rx, startErr,
                   errs, mails, out, config, call, recv, imapc>>

(***************************************************************************)
(* The user calls Start: connect is about to dial.                         *)
(***************************************************************************)
Start ==
    /\ pc[0] = "new"
    /\ offered' = offered
    /\ pc' = [pc EXCEPT ![0] = "dial"]
    /\ UNCHANGED <<conn, p, jid, closed, dials, orig, tries, rx, startErr,
                   errs, mails, log, out, config, call, recv, imapc>>

DialError == <<"dial", "tcp:", "connection", "refused">>
TLSError == <<"tls:", "handshake", "failure">>
UserError(u) == <<"xmpp:", "invalid", "username", "(want", "user@domain):", UserStr(u)>>

\* a connect whose init goes on with the decoder it has
connectKeepsDecoder(t) ==
    /\ pc[t] = "dial"
    /\ offered' = <<>>
    /\ dials < MaxDial
    /\ dials' = dials + 1
    /\ UNCHANGED <<jid, orig, tries, rx, mails, out, config, call, recv, imapc>>
    /\ \E outcome \in {"refused", "tls", "ok"} :
        CASE outcome = "refused" ->
                /\ StartReturnsError(t, DialError)
                /\ log' = <<E(t, "dial", 0, DialError)>>
                /\ UNCHANGED <<conn, p, closed>>
          [] outcome = "tls" ->
                /\ conn' = dials'
                /\ StartReturnsError(t, TLSError)
                /\ log' = <<E(t, "dial", conn', TLSError)>>
                /\ UNCHANGED <<p, closed>>
          [] outcome = "ok" ->
                /\ conn' = dials'
                /\ p' = p
                /\ IF Len(SplitUser(user)) # 2
                   THEN /\ closed' = closed \cup {conn'}
                        /\ log' = <<E(t, "dial", conn', NoErr),
                                    E(t, "init-err", conn', UserError(user)),
                                    E(t, "close", conn', <<>>)>>
                        /\ StartReturnsError(t, UserError(user))
                   ELSE /\ closed' = closed
                        /\ log' = <<E(t, "dial", conn', NoErr),
                                    E(t, "send", conn', StreamOpen)>>
                        /\ pc' = [pc EXCEPT ![t] = "stream1"]
                        /\ UNCHANGED <<startErr, errs>>

(***************************************************************************)
(* connect: net.Dial, the TLS handshake, and the start of init up to its   *)
(* first read.  The new transport is numbered by the dial that made it.    *)
(***************************************************************************)
connect(t) ==
    /\ pc[t] = "dial"
    /\ offered' = <<>>
    /\ dials < MaxDial
    /\ dials' = dials + 1
    /\ UNCHANGED <<jid, orig, tries, rx, mails, out, config, call, recv, imapc>>
    /\ \E outcome \in {"refused", "tls", "ok"} :
        CASE outcome = "refused" ->
                /\ StartReturnsError(t, DialError)
                /\ log' = <<E(t, "dial", 0, DialError)>>
                /\ UNCHANGED <<conn, p, closed>>
          [] outcome = "tls" ->
                /\ conn' = dials'
                /\ StartReturnsError(t, TLSError)
                /\ log' = <<E(t, "dial", conn', TLSError)>>
                /\ UNCHANGED <<p, closed>>
          [] outcome = "ok" ->
                /\ conn' = dials'
                /\ p' = conn'
                /\ IF Len(SplitUser(user)) # 2
                   THEN /\ closed' = closed \cup {conn'}
                        /\ log' = <<E(t, "dial", conn', NoErr),
                                    E(t, "init-err", conn', UserError(user)),
                                    E(t, "close", conn', <<>>)>>
                        /\ StartReturnsError(t, UserError(user))
                   ELSE /\ closed' = closed
                        /\ log' = <<E(t, "dial", conn', NoErr),
                                    E(t, "send", conn', StreamOpen)>>
                        /\ pc' = [pc EXCEPT ![t] = "stream1"]
                        /\ UNCHANGED <<startErr, errs>>

(***************************************************************************)
(* init, one action per blocking read.  Each action takes what the read    *)
(* returns, applies the checks that follow the read in the code, and       *)
(* either fails or emits the stanzas up to the next read.                  *)
(***************************************************************************)
Domain == SplitUser(user)[2]

\* a selection that looks for PLAIN in the whole list before DIGEST-MD5
MechanismPlainFirst(ms) ==
    IF \E i \in 1 .. Len(ms) : ms[i] = "PLAIN" THEN "PLAIN"
    ELSE IF \E i \in 1 .. Len(ms) : ms[i] = "DIGEST-MD5" THEN "DIGEST-MD5"
    ELSE ""

\* the loop over f.Mechanisms.Mechanism: the mechanism it settles on
RECURSIVE Mechanism(_)
Mechanism(ms) ==
    IF ms = <<>> THEN ""
    ELSE IF Head(ms) = "PLAIN" THEN "PLAIN"
    ELSE IF Head(ms) = "DIGEST-MD5" THEN "DIGEST-MD5"
    ELSE Mechanism(Tail(ms))

NoMechanismError(ms) == <<"PLAIN", "authentication", "is", "not", "an", "option:">> \o ms

\* StreamOpen: the server's <stream:stream>
InitStream1(t) ==
    /\ pc[t] = "stream1"
    /\ offered' = <<>>
    /\ \E r \in Reads(p) :
        LET se == nextStart(r) IN
        IF se.err # NoErr THEN InitFails(t, se.err, <<Recv(t, r)>>)
        ELSE IF se.space # nsStream \/ se.local # "stream"
        THEN InitFails(t, <<"xmpp:", "expected", "<stream>", "but", "got",
                            se.local, "in", se.space>>, <<Recv(t, r)>>)
        ELSE Goes(t, "features1", <<Recv(t, r)>>)

\* FeatureDiscovery: <stream:features>, the choice of the mechanism and <auth>
InitFeatures1(t) ==
    /\ pc[t] = "features1"
    /\ \E r \in Reads(p) :
        LET err == DecodeStruct(r, nsStream, "features")
            mechanism == Mechanism(r.mechs)
        IN
        /\ offered' = IF err # NoErr THEN <<>> ELSE r.mechs
        /\ IF err # NoErr
           THEN InitFails(t, <<"unmarshal", "<features>:">> \o err, <<Recv(t, r)>>)
           ELSE IF mechanism = "PLAIN"
           THEN Goes(t, "authresult", <<Recv(t, r), Send(t, AuthPlain)>>)
           ELSE IF mechanism = "DIGEST-MD5"
           THEN Goes(t, "challenge", <<Recv(t, r), Send(t, AuthDigest)>>)
           ELSE InitFails(t, NoMechanismError(r.mechs), <<Recv(t, r)>>)

\* DIGEST-MD5: the challenge, answered by the digest response
InitChallenge(t) ==
    /\ pc[t] = "challenge"
    /\ offered' = <<>>
    /\ \E r \in Reads(p) :
        IF DecodeString(r) # NoErr
        THEN InitFails(t, <<"unmarshal", "<challenge>:">> \o DecodeString(r), <<Recv(t, r)>>)
        ELSE IF Base64Error(r) # NoErr
        THEN InitFails(t, Base64Error(r), <<Recv(t, r)>>)
        ELSE Goes(t, "rspauth", <<Recv(t, r), Send(t, DigestResponse)>>)

\* DIGEST-MD5: the response-authentication, answered by the empty response
InitRspAuth(t) ==
    /\ pc[t] = "rspauth"
    /\ offered' = <<>>
    /\ \E r \in Reads(p) :
        IF DecodeString(r) # NoErr
        THEN InitFails(t, <<"unmarshal", "<challenge>:">> \o DecodeString(r), <<Recv(t, r)>>)
        ELSE IF Base64Error(r) # NoErr
        THEN InitFails(t, Base64Error(r), <<Recv(t, r)>>)
        ELSE Goes(t, "authresult", <<Recv(t, r), Send(t, EmptyResponse)>>)

\* an AuthResult step that goes on to the bind request without the restart
InitAuthResultNoRestart(t) ==
    /\ pc[t] = "authresult"
    /\ offered' = <<>>
    /\ \E r \in Reads(p) :
        LET n == next(r) IN
        IF n.err # NoErr THEN InitFails(t, n.err, <<RecvAuth(t, r)>>)
        ELSE IF n.space = nsSASL /\ n.local = "success"
        THEN Goes(t, "bind", <<RecvAuth(t, r), Send(t, BindRequest)>>)
        ELSE IF n.space = nsSASL /\ n.local = "failure"
        THEN InitFails(t, <<"auth", "failure:", n.v.any>>, <<RecvAuth(t, r)>>)
        ELSE InitFails(t, <<"expected", "<success>", "or", "<failure>,", "got",
                            n.local, "in", n.space>>, <<RecvAuth(t, r)>>)

\* an AuthResult step that rejects <failure> only
InitAuthResultLenient(t) ==
    /\ pc[t] = "authresult"
    /\ offered' = <<>>
    /\ \E r \in Reads(p) :
        LET n == next(r) IN
        IF n.err # NoErr THEN InitFails(t, n.err, <<RecvAuth(t, r)>>)
        ELSE IF n.space = nsSASL /\ n.local = "failure"
        THEN InitFails(t, <<"auth", "failure:", n.v.any>>, <<RecvAuth(t, r)>>)
        ELSE Goes(t, "stream2", <<RecvAuth(t, r), Send(t, StreamOpen)>>)

\* AuthResult: <success> restarts the stream, anything else fails
InitAuthResult(t) ==
    /\ pc[t] = "authresult"
    /\ offered' = <<>>
    /\ \E r \in Reads(p) :
        LET n == next(r) IN
        IF n.err # NoErr THEN InitFails(t, n.err, <<RecvAuth(t, r)>>)
        ELSE IF n.space = nsSASL /\ n.local = "success"
        THEN Goes(t, "stream2", <<RecvAuth(t, r), Send(t, StreamOpen)>>)
        ELSE IF n.space = nsSASL /\ n.local = "failure"
        THEN InitFails(t, <<"auth", "failure:", n.v.any>>, <<RecvAuth(t, r)>>)
        ELSE InitFails(t, <<"expected", "<success>", "or", "<failure>,", "got",
                            n.local, "in", n.space>>, <<RecvAuth(t, r)>>)

\* a StreamRestart step that gives up by itself, without a read
InitStream2TimesOut(t) ==
    /\ pc[t] = "stream2"
    /\ offered' = <<>>
    /\ InitFails(t, ErrTimeout, <<>>)

\* StreamRestart: the second <stream:stream>
InitStream2(t) ==
    /\ pc[t] = "stream2"
    /\ offered' = <<>>
    /\ \E r \in Reads(p) :
        LET se == nextStart(r) IN
        IF se.err # NoErr THEN InitFails(t, se.err, <<Recv(t, r)>>)
        ELSE IF se.space # nsStream \/ se.local # "stream"
        THEN InitFails(t, <<"expected", "<stream>,", "got", se.local, "in",
                            se.space>>, <<Recv(t, r)>>)
        ELSE Goes(t, "features2", <<Recv(t, r)>>)

\* StreamRestart: the second <stream:features>, followed by the bind request
InitFeatures2(t) ==
    /\ pc[t] = "features2"
    /\ offered' = <<>>
    /\ \E r \in Reads(p) :
        LET err == DecodeStruct(r, nsStream, "features") IN
        IF err # NoErr
        THEN InitFails(t, <<"unmarshal", "<features>:">> \o err, <<Recv(t, r)>>)
        ELSE Goes(t, "bind", <<Recv(t, r), Send(t, BindRequest)>>)

\* the test &iq.Bind == nil: the address of a field of a local struct
BindIsNil(r) == FALSE

\* a bind step that takes the first resource whatever the reply says
BindJidFixed(r) == Jid1

\* iq.Bind.Jid: the zero string when the <iq> carries no <bind>
BindJid(r) == IF r.child = "bind" THEN r.jid ELSE ""

\* ResourceBind: the reply to the bind request sets the JID
InitBind(t) ==
    /\ pc[t] = "bind"
    /\ offered' = <<>>
    /\ \E r \in Reads(p) :
        LET err == DecodeStruct(r, nsClient, "iq") IN
        IF err # NoErr
        THEN InitFails(t, <<"unmarshal", "<iq>:">> \o err, <<RecvBind(t, r)>>)
        ELSE IF BindIsNil(r)
        THEN InitFails(t, <<"<iq>", "result", "missing", "<bind>">>, <<RecvBind(t, r)>>)
        ELSE /\ jid' = BindJid(r)
             /\ pc' = [pc EXCEPT ![t] = "setting"]
             /\ log' = log \o <<RecvBind(t, r), Send(t, SettingRequest)>>
             /\ UNCHANGED <<conn, p, closed, dials, orig, tries, rx, startErr,
                            errs, mails, out, config, call, recv, imapc>>

\* an EnableNotifications step that takes an <iq> of any type for the
\* acknowledgment
InitSettingAnyType(t) ==
    /\ pc[t] = "setting"
    /\ offered' = <<>>
    /\ \E r \in Reads(p) :
        LET n == next(r) IN
        IF n.err # NoErr THEN InitFails(t, n.err, <<RecvSetting(t, r)>>)
        ELSE IF n.space # nsClient \/ n.local # "iq"
        THEN InitFails(t, <<"expected", "<iq>,", "got", n.local, "in", n.space>>,
                       <<RecvSetting(t, r)>>)
        ELSE IF n.v.to # jid
        THEN InitFails(t, <<"expected", "<iq>", "to", jid, "with", "type",
                            "'result',", "got">> \o IQFields(n.v), <<RecvSetting(t, r)>>)
        ELSE Goes(t, "disco", <<RecvSetting(t, r), Send(t, DiscoRequest(Domain))>>)

\* EnableNotifications: the acknowledgment of the setting
InitSetting(t) ==
    /\ pc[t] = "setting"
    /\ offered' = <<>>
    /\ \E r \in Reads(p) :
        LET n == next(r) IN
        IF n.err # NoErr THEN InitFails(t, n.err, <<RecvSetting(t, r)>>)
        ELSE IF n.space # nsClient \/ n.local # "iq"
        THEN InitFails(t, <<"expected", "<iq>,", "got", n.local, "in", n.space>>,
                       <<RecvSetting(t, r)>>)
        ELSE IF n.v.to # jid \/ n.v.type # "result"
        THEN InitFails(t, <<"expected", "<iq>", "to", jid, "with", "type",
                            "'result',", "got">> \o IQFields(n.v), <<RecvSetting(t, r)>>)
        ELSE Goes(t, "disco", <<RecvSetting(t, r), Send(t, DiscoRequest(Domain))>>)

\* a loop that is content with any feature
HasNotifyOrAny(feats) == Len(feats) > 0

\* the loop over ciq.Query.Features
HasNotify(feats) == \E i \in 1 .. Len(feats) : feats[i] = nsNotify

\* CapabilityCheck: the disco#info result (the error of next is not looked at)
InitDisco(t) ==
    /\ pc[t] = "disco"
    /\ offered' = <<>>
    /\ \E r \in Reads(p) :
        LET n == next(r) IN
        IF n.space # nsClient \/ n.local # "iq"
        THEN InitFails(t, <<"expected", "<iq>,", "got", n.local, "in", n.space>>,
                       <<RecvDisco(t, r)>>)
        ELSE IF n.v.from # Domain \/ n.v.to # jid \/ n.v.type # "result"
        THEN InitFails(t, <<"expected", "<iq>", "from", Domain, "to", jid, "of",
                            "type", "'result'", "but", "got", n.v.from, n.v.to,
                            n.v.type>>, <<RecvDisco(t, r)>>)
        ELSE IF ~HasNotify(n.v.feats)
        THEN InitFails(t, <<"expected", "to", "find", nsNotify, "but", "got">>
                            \o n.v.feats, <<RecvDisco(t, r)>>)
        ELSE Goes(t, "subscribe",
                  <<RecvDisco(t, r), Send(t, MailRequest(jid, UserStr(user)))>>)

\* a Subscribe step that does not look at the id of the reply
InitSubscribeAnyId(t) ==
    /\ pc[t] = "subscribe"
    /\ offered' = <<>>
    /\ \E r \in Reads(p) :
        LET n == next(r) IN
        IF n.space # nsClient \/ n.local # "iq"
        THEN InitFails(t, <<"expected", "<iq>", "got",
                            IF n.ok THEN n.local ELSE "<nil>">>, <<RecvSubscribe(t, r)>>)
        ELSE IF \/ n.v.from # UserStr(user)
                \/ n.v.to # jid \/ n.v.type # "result"
        THEN InitFails(t, <<"expected", "<iq>", "from", UserStr(user), "to", jid,
                            "of", "type", "'result',", "with", "id",
                            "'mail-request-1',", "but", "got">> \o IQFields(n.v),
                       <<RecvSubscribe(t, r)>>)
        ELSE /\ pc' = [pc EXCEPT ![t] = IF t = 0 THEN "done" ELSE "return",
                                 ![dials] = "loop"]
             /\ log' = log \o <<RecvSubscribe(t, r), E(t, "init-ok", conn, <<>>),
                                E(t, "go", conn, <<>>)>>
             /\ orig' = [s \in Loops |-> IF s = t THEN NoErr ELSE orig[s]]
             /\ UNCHANGED <<conn, p, jid, closed, dials, tries, rx,
                            startErr, errs, mails, out, config, call, recv, imapc>>

\* a Subscribe step after which Start returns nil without starting handleMail
InitSubscribeNoLoop(t) ==
    /\ pc[t] = "subscribe"
    /\ offered' = <<>>
    /\ \E r \in Reads(p) :
        LET n == next(r) IN
        IF n.space # nsClient \/ n.local # "iq"
        THEN InitFails(t, <<"expected", "<iq>", "got",
                            IF n.ok THEN n.local ELSE "<nil>">>, <<RecvSubscribe(t, r)>>)
        ELSE IF \/ n.v.from # UserStr(user) \/ n.v.id # "mail-request-1"
                \/ n.v.to # jid \/ n.v.type # "result"
        THEN InitFails(t, <<"expected", "<iq>", "from", UserStr(user), "to", jid,
                            "of", "type", "'result',", "with", "id",
                            "'mail-request-1',", "but", "got">> \o IQFields(n.v),
                       <<RecvSubscribe(t, r)>>)
        ELSE /\ pc' = [pc EXCEPT ![t] = IF t = 0 THEN "done" ELSE "return"]
             /\ log' = log \o <<RecvSubscribe(t, r), E(t, "init-ok", conn, <<>>)>>
             /\ orig' = [s \in Loops |-> IF s = t THEN NoErr ELSE orig[s]]
             /\ UNCHANGED <<conn, p, jid, closed, dials, tries, rx,
                            startErr, errs, mails, out, config, call, recv, imapc>>

\* Subscribe: the reply to the mail-notify query; init returns nil, connect
\* returns nil and Start starts handleMail in a new task and returns nil
InitSubscribe(t) ==
    /\ pc[t] = "subscribe"
    /\ offered' = <<>>
    /\ \E r \in Reads(p) :
        LET n == next(r) IN
        IF n.space # nsClient \/ n.local # "iq"
        THEN InitFails(t, <<"expected", "<iq>", "got",
                            IF n.ok THEN n.local ELSE "<nil>">>, <<RecvSubscribe(t, r)>>)
        ELSE IF \/ n.v.from # UserStr(user) \/ n.v.id # "mail-request-1"
                \/ n.v.to # jid \/ n.v.type # "result"
        THEN InitFails(t, <<"expected", "<iq>", "from", UserStr(user), "to", jid,
                            "of", "type", "'result',", "with", "id",
                            "'mail-request-1',", "but", "got">> \o IQFields(n.v),
                       <<RecvSubscribe(t, r)>>)
        ELSE /\ pc' = [pc EXCEPT ![t] = IF t = 0 THEN "done" ELSE "return",
                                 ![dials] = "loop"]
             /\ log' = log \o <<RecvSubscribe(t, r), E(t, "init-ok", conn, <<>>),
                                E(t, "go", conn, <<>>)>>
             /\ orig' = [s \in Loops |-> IF s = t THEN NoErr ELSE orig[s]]
             /\ UNCHANGED <<conn, p, jid, closed, dials, tries, rx,
                            startErr, errs, mails, out, config, call, recv, imapc>>

\* a handleMail that goes on reading after its call of Start returned nil
handleMailContinues(t) ==
    /\ t \in Loops
    /\ pc[t] = "return"
    /\ offered' = offered
    /\ pc' = [pc EXCEPT ![t] = "loop"]
    /\ UNCHANGED <<conn, p, jid, closed, dials, orig, tries, rx, startErr,
                   errs, mails, log, out, config, call, recv, imapc>>

(***************************************************************************)
(* handleMail, after its call of Start returned nil: it returns.           *)
(***************************************************************************)
handleMailReturn(t) ==
    /\ t \in Loops
    /\ pc[t] = "return"
    /\ offered' = offered
    /\ pc' = [pc EXCEPT ![t] = "done"]
    /\ UNCHANGED <<conn, p, jid, closed, dials, orig, tries, rx, startErr,
                   errs, mails, log, out, config, call, recv, imapc>>

\* a condition that takes the type "result" for "set"
IsNewMailWrongType(n) ==
    /\ n.space = nsClient /\ n.local = "iq"
    /\ n.v.to = jid /\ n.v.type = "result" /\ n.v.child = "new-mail"

\* a condition that does not look at the address of the stanza
IsNewMailAnyAddress(n) ==
    /\ n.space = nsClient /\ n.local = "iq"
    /\ n.v.type = "set" /\ n.v.child = "new-mail"

\* the condition under which handleMail answers a decoded stanza
IsNewMail(n) ==
    /\ n.space = nsClient /\ n.local = "iq"
    /\ n.v.to = jid /\ n.v.type = "set" /\ n.v.child = "new-mail"

\* a reply with the id of the subscription in place of the notification's
NewMailReplyFixedId(ciq) == ResultReply(UserStr(user), jid, "mail-request-1")

\* the reply of handleMail to the notification ciq
NewMailReply(ciq) == ResultReply(UserStr(user), jid, ciq.id)

(***************************************************************************)
(* handleMail: one iteration of the loop, from the read to the next read.  *)
(* A reset-like failure closes the transport and calls Start, which is     *)
(* then about to dial.                                                     *)
(***************************************************************************)
handleMail(t) ==
    /\ t \in Loops
    /\ pc[t] = "loop"
    /\ offered' = offered
    /\ \E r \in Reads(p) :
        LET n == next(r) IN
        /\ rx' = r
        /\ UNCHANGED <<conn, p, jid, dials, startErr, log, config, call, recv, imapc>>
        /\ IF n.err # NoErr
           THEN IF IsResetLike(n.err)
                THEN /\ dials < MaxDial
                     /\ closed' = closed \cup {conn}
                     /\ orig' = [orig EXCEPT ![t] = n.err]
                     /\ tries' = [tries EXCEPT ![t] = @ + 1]
                     /\ pc' = [pc EXCEPT ![t] = "dial"]
                     /\ out' = <<E(t, "close", conn, <<>>)>>
                     /\ UNCHANGED <<errs, mails>>
                ELSE /\ IF errorHandler # NilFunc
                        THEN /\ errs' = Append(errs, n.err)
                             /\ out' = <<E(t, "error", conn, n.err)>>
                        ELSE /\ errs' = errs
                             /\ out' = <<>>
                     /\ pc' = [pc EXCEPT ![t] = "done"]
                     /\ UNCHANGED <<closed, orig, tries, mails>>
           ELSE IF IsNewMail(n)
                THEN /\ mails < MaxMail
                     /\ IF mailHandler # NilFunc
                        THEN /\ out' = <<Send(t, NewMailReply(n.v)),
                                         E(t, "mail", conn, <<>>)>>
                             /\ mails' = mails + 1
                        ELSE /\ out' = <<Send(t, NewMailReply(n.v))>>
                             /\ mails' = mails
                     /\ UNCHANGED <<closed, pc, orig, tries, errs>>
                ELSE /\ out' = <<>>
                     /\ UNCHANGED <<closed, pc, orig, tries, errs, mails>>

Next ==
    \/ Start
    \/ \E t \in Tasks :
        \/ connect(t)
        \/ InitStream1(t)
        \/ InitFeatures1(t)
        \/ InitChallenge(t)
        \/ InitRspAuth(t)
        \/ InitAuthResult(t)
        \/ InitStream2(t)
        \/ InitFeatures2(t)
        \/ InitBind(t)
        \/ InitSetting(t)
        \/ InitDisco(t)
        \/ InitSubscribe(t)
        \/ handleMailReturn(t)
        \/ handleMail(t)

Spec == Init /\ [][Next]_vars

(***************************************************************************)
(* Fairness for what follows a disconnect: a task that is about to dial    *)
(* dials, and a task waiting in a step of the handshake gets an element or *)
(* an error from the transport and takes the step (at most one task is in  *)
(* connect or init at a time).  Nothing makes the server send to a loop    *)
(* that is reading.                                                        *)
(***************************************************************************)
Handshake(t) ==
    \/ connect(t)
    \/ InitStream1(t)
    \/ InitFeatures1(t)
    \/ InitChallenge(t)
    \/ InitRspAuth(t)
    \/ InitAuthResult(t)
    \/ InitStream2(t)
    \/ InitFeatures2(t)
    \/ InitBind(t)
    \/ InitSetting(t)
    \/ InitDisco(t)
    \/ InitSubscribe(t)

\* what the server sends to a loop that is reading, one of each kind: every
\* error and element that is not an <iq>, and of the <iq>s those from the
\* domain with the id m2 that carry nothing or a <new-mail/>
FairReads ==
    {r \in Elements \cup TransportErrors \cup {TErr(ErrClosed)} :
        r.local = "iq" /\ r.bad = "" =>
            r.from = "domain" /\ r.id = "m2" /\ r.child \in {"none", "new-mail"}}

FairNext == Next /\ (rx' = rx \/ rx' \in FairReads)

SpecFair == Init /\ [][FairNext]_vars /\ WF_vars(\E t \in Tasks : Handshake(t))

(***************************************************************************)
(* xmlEscape.  A string is the sequence of its bytes.                      *)
(***************************************************************************)
\* the bytes of the arguments: < > " ' & a ; and the first byte of a
\* two-byte character
Bytes == {60, 62, 34, 39, 38, 97, 59, 195}

Strings == UNION {[1 .. n -> Bytes] : n \in 0 .. MaxLen}

\* a table without the apostrophe
xmlSpecialNoApos ==
    60 :> <<38, 108, 116, 59>> @@ 62 :> <<38, 103, 116, 59>>
    @@ 34 :> <<38, 113, 117, 111, 116, 59>> @@ 38 :> <<38, 97, 109, 112, 59>>

\* the table of the entities: &lt; &gt; &quot; &apos; &amp;
xmlSpecial ==
    60 :> <<38, 108, 116, 59>> @@ 62 :> <<38, 103, 116, 59>>
    @@ 34 :> <<38, 113, 117, 111, 116, 59>>
    @@ 39 :> <<38, 97, 112, 111, 115, 59>> @@ 38 :> <<38, 97, 109, 112, 59>>

\* the loop over the bytes of s
RECURSIVE xmlEscape(_)
xmlEscape(s) ==
    IF s = <<>> THEN <<>>
    ELSE (IF Head(s) \in DOMAIN xmlSpecial THEN xmlSpecial[Head(s)] ELSE <<Head(s)>>)
         \o xmlEscape(Tail(s))

(***************************************************************************)
(* saslDigestResponse.  Here a string is a sequence of tokens: <<"c", x>>  *)
(* is the piece x of a literal or of an argument, <<"md5", s>> the 16      *)
(* bytes of the MD5 sum of s, <<"hex", b>> the lowercase hexadecimal form  *)
(* of the bytes b.                                                         *)
(***************************************************************************)
Str(pieces) == [i \in 1 .. Len(pieces) |-> <<"c", pieces[i]>>]

\* h := md5.New(); h.Write([]byte(text)); h.Sum(nil)
h(text) == <<"md5", text>>

\* fmt.Sprintf("%x", bytes)
hex(bytes) == << <<"hex", bytes>> >>

\* string(bytes)
string(bytes) == <<bytes>>

\* a kd that leaves out the colon
kdNoColon(secret, data) == h(secret \o data)

kd(secret, data) == h(secret \o Str(<<":">>) \o data)

saslDigestResponse(username, realm, passwd, nonce, cnonceStr, authenticate, digestUri, nonceCountStr) ==
    LET a1 == string(h(username \o Str(<<":">>) \o realm \o Str(<<":">>) \o passwd))
                \o Str(<<":">>) \o nonce \o Str(<<":">>) \o cnonceStr
        a2 == authenticate \o Str(<<":">>) \o digestUri
    IN hex(kd(hex(h(a1)), nonce \o Str(<<":">>) \o nonceCountStr \o Str(<<":">>)
                          \o cnonceStr \o Str(<<":", "auth", ":">>) \o hex(h(a2))))

\* Client.password
Password == Str(<<"password">>)

\* fmt.Sprintf("%08x", 1)
NonceCount == Str(<<"00000001">>)

(***************************************************************************)
(* The calls of the two functions: the arguments are drawn at the start,   *)
(* the actions apply the functions.  xmlEscape is applied to its argument  *)
(* and once more to its result; saslDigestResponse is called with drawn    *)
(* arguments, or by init with the realm and the nonce of the challenge and *)
(* the value of cnonce().                                                  *)
(***************************************************************************)
Texts == {<<>>, Str(<<"a">>)}

EscapeCalls == {[NoCall EXCEPT !.fn = "xmlEscape", !.args = <<s>>] : s \in Strings}

DigestCalls ==
    {[NoCall EXCEPT !.fn = "saslDigestResponse", !.args = a] : a \in [1 .. 8 -> Texts]}

InitCalls ==
    {[NoCall EXCEPT !.fn = "init", !.args = <<realm, nonce, cn>>] :
        realm \in Texts, nonce \in Texts, cn \in {<<>>, Str(<<"0123456789abcdef">>)}}

PureInit == New /\ recv = NoRecv /\ imapc = NilClient /\ call \in EscapeCalls \cup DigestCalls \cup InitCalls

CallXmlEscape ==
    /\ call.fn = "xmlEscape"
    /\ call.n < 2
    /\ call' = [call EXCEPT
                  !.n = @ + 1,
                  !.once = IF call.n = 0 THEN xmlEscape(call.args[1]) ELSE @,
                  !.res = xmlEscape(IF call.n = 0 THEN call.args[1] ELSE call.res)]
    /\ UNCHANGED <<client, recv, imapc>>

CallSaslDigestResponse ==
    /\ call.fn = "saslDigestResponse"
    /\ call.n = 0
    /\ call' = [call EXCEPT
                  !.n = 1, !.by = "caller",
                  !.res = saslDigestResponse(call.args[1], call.args[2], call.args[3],
                                             call.args[4], call.args[5], call.args[6],
                                             call.args[7], call.args[8])]
    /\ UNCHANGED <<client, recv, imapc>>

\* the call in the DIGEST-MD5 branch of init
InitDigestResponse ==
    /\ call.fn = "init"
    /\ Len(SplitUser(user)) = 2
    /\ LET realm == call.args[1]
           nonce == call.args[2]
           cnonceStr == call.args[3]
           digestUri == Str(<<"xmpp/", SplitUser(user)[2]>>)
           username == Str(<<SplitUser(user)[1]>>)
       IN call' = [fn |-> "saslDigestResponse",
                   args |-> <<username, realm, Password, nonce, cnonceStr,
                              Str(<<"AUTHENTICATE">>), digestUri, NonceCount>>,
                   n |-> 1, once |-> <<>>, by |-> "init",
                   res |-> saslDigestResponse(username, realm, Password, nonce,
                                              cnonceStr, Str(<<"AUTHENTICATE">>),
                                              digestUri, NonceCount)]
    /\ UNCHANGED <<client, recv, imapc>>

PureNext == CallXmlEscape \/ CallSaslDigestResponse \/ InitDigestResponse

SpecPure == PureInit /\ [][PureNext]_vars

(***************************************************************************)
(* The DIGEST-MD5 challenge as init parses it (xmpp.go:192-205).  A text   *)
(* is the sequence of its pieces: the characters , = " and space, and      *)
(* words of other characters.  The server writes the challenge as a list   *)
(* of directives; init sees only the text.                                 *)
(***************************************************************************)
Keys == {"realm", "nonce", "qop", "charset"}

\* the directives of a challenge: a key, an optional "=" with a value that
\* may be in double quotes, and an optional space before the key
Directives ==
    {[key |-> k, eq |-> FALSE, quoted |-> FALSE, val |-> <<>>, sp |-> s] :
        k \in Keys, s \in BOOLEAN}
    \cup {[key |-> k, eq |-> TRUE, quoted |-> FALSE, val |-> v, sp |-> s] :
             k \in Keys, s \in BOOLEAN, v \in {<<>>, <<"a">>, <<"\"">>}}
    \cup {[key |-> k, eq |-> TRUE, quoted |-> TRUE, val |-> v, sp |-> s] :
             k \in Keys, s \in BOOLEAN, v \in {<<>>, <<"a">>, <<"a", ",", "b">>}}

Challenges == UNION {[1 .. n -> Directives] : n \in 0 .. MaxTok}

\* the text of a directive, and of a challenge: its directives joined by ","
DirectiveText(d) ==
    (IF d.sp THEN <<" ">> ELSE <<>>) \o <<d.key>>
    \o (IF ~d.eq THEN <<>>
        ELSE <<"=">> \o (IF d.quoted THEN <<"\"">> \o d.val \o <<"\"">> ELSE d.val))

RECURSIVE ChallengeText(_)
ChallengeText(ds) ==
    IF ds = <<>> THEN <<>>
    ELSE IF Len(ds) = 1 THEN DirectiveText(ds[1])
    ELSE DirectiveText(ds[1]) \o <<",">> \o ChallengeText(Tail(ds))

\* strings.Split(s, ",")
RECURSIVE Split(_)
Split(s) ==
    IF \A i \in 1 .. Len(s) : s[i] # "," THEN <<s>>
    ELSE LET i == CHOOSE i \in 1 .. Len(s) :
                      s[i] = "," /\ \A j \in 1 .. i - 1 : s[j] # ","
         IN <<SubSeq(s, 1, i - 1)>> \o Split(SubSeq(s, i + 1, Len(s)))

\* strings.TrimSpace(s)
RECURSIVE TrimSpace(_)
TrimSpace(s) ==
    IF s # <<>> /\ s[1] = " " THEN TrimSpace(Tail(s))
    ELSE IF s # <<>> /\ s[Len(s)] = " " THEN TrimSpace(SubSeq(s, 1, Len(s) - 1))
    ELSE s

\* strings.SplitN(s, "=", 2)
SplitN2(s) ==
    IF \A i \in 1 .. Len(s) : s[i] # "=" THEN <<s>>
    ELSE LET i == CHOOSE i \in 1 .. Len(s) :
                      s[i] = "=" /\ \A j \in 1 .. i - 1 : s[j] # "="
         IN <<SubSeq(s, 1, i - 1), SubSeq(s, i + 1, Len(s))>>

\* the if of xmpp.go:195-197 on kv[1]: kv[1][0] of an empty value is an
\* index out of range, and kv[1][1 : 0] of a value that is one double quote
\* is a slice out of bounds
Unquote(v) ==
    IF Len(v) = 0 THEN [panic |-> TRUE, v |-> <<>>]
    ELSE IF v[1] = "\"" /\ v[Len(v)] = "\""
    THEN IF Len(v) = 1 THEN [panic |-> TRUE, v |-> <<>>]
         ELSE [panic |-> FALSE, v |-> SubSeq(v, 2, Len(v) - 1)]
    ELSE [panic |-> FALSE, v |-> v]

\* the loop of xmpp.go:192-200 and the lookups of xmpp.go:201-204: whether the
\* loop panics, and else the values of realm, nonce, qop and charset in the
\* map, the later of two tokens with one key overwriting the earlier
ParseChallenge(b) ==
    LET toks == Split(b)
        kv == [i \in 1 .. Len(toks) |-> SplitN2(TrimSpace(toks[i]))]
        set == {i \in 1 .. Len(toks) : Len(kv[i]) = 2}
        last(k) == CHOOSE i \in set :
                      kv[i][1] = <<k>> /\ \A j \in set : kv[j][1] = <<k>> => j <= i
    IN IF \E i \in set : Unquote(kv[i][2]).panic
       THEN [panic |-> TRUE, tokens |-> [k \in Keys |-> <<>>]]
       ELSE [panic |-> FALSE,
             tokens |-> [k \in Keys |->
                            IF \E i \in set : kv[i][1] = <<k>>
                            THEN Unquote(kv[last(k)][2]).v ELSE <<>>]]

ChallengeCalls ==
    {[NoCall EXCEPT !.fn = "challenge", !.args = <<ds>>] : ds \in Challenges}

\* init with the decoded text of the challenge: the parse of xmpp.go:192-204
InitParseChallenge ==
    /\ call.fn = "challenge"
    /\ call.n = 0
    /\ call' = [call EXCEPT !.n = 1, !.once = ChallengeText(call.args[1]),
                            !.res = ParseChallenge(ChallengeText(call.args[1]))]
    /\ UNCHANGED <<client, recv, imapc>>

ChallengeInit ==
    New /\ recv = NoRecv /\ imapc = NilClient /\ call \in ChallengeCalls

SpecChallenge == ChallengeInit /\ [][InitParseChallenge]_vars

(***************************************************************************)
(* nextStart token by token (xmpp.go:516-531).  The decoder delivers the   *)
(* tokens of a stream in order and, past the last of them, what the read   *)
(* of the transport returns, again and again: end-of-document (io.EOF) or  *)
(* another error.  call.n is the number of tokens taken, call.res the      *)
(* result once nextStart has returned.                                     *)
(***************************************************************************)
TokenKinds == {"StartElement", "EndElement", "CharData", "Comment", "ProcInst"}

TokenStreams == UNION {[1 .. n -> TokenKinds] : n \in 0 .. MaxStream}

NextStartCalls ==
    {[NoCall EXCEPT !.fn = "nextStart", !.args = <<s, e>>] :
        s \in TokenStreams, e \in {"EOF", "error"}}

\* a loop that returns the end-of-document like any other error
nextStartLoopReturnsEOF ==
    /\ call.fn = "nextStart"
    /\ call.res = <<>>
    /\ LET s == call.args[1]
           i == call.n + 1
       IN IF i <= Len(s)
          THEN call' = [call EXCEPT !.n = i,
                           !.res = IF s[i] = "StartElement"
                                   THEN <<"StartElement", i>> ELSE <<>>]
          ELSE call' = [call EXCEPT !.res = <<"error", call.args[2]>>]
    /\ UNCHANGED <<client, recv, imapc>>

\* one iteration of the loop of nextStart: p.Token(), the return of an error
\* that is not io.EOF, the return of a StartElement; anything else, io.EOF
\* included, goes round the loop
nextStartLoop ==
    /\ call.fn = "nextStart"
    /\ call.res = <<>>
    /\ LET s == call.args[1]
           i == call.n + 1
       IN IF i <= Len(s)
          THEN call' = [call EXCEPT !.n = i,
                           !.res = IF s[i] = "StartElement"
                                   THEN <<"StartElement", i>> ELSE <<>>]
          ELSE IF call.args[2] # "EOF"
          THEN call' = [call EXCEPT !.res = <<"error", call.args[2]>>]
          ELSE call' = call
    /\ UNCHANGED <<client, recv, imapc>>

TokensInit ==
    New /\ recv = NoRecv /\ imapc = NilClient /\ call \in NextStartCalls

SpecTokens == TokensInit /\ [][nextStartLoop]_vars

(***************************************************************************)
(* Package gmail (src/unnamed/part_000): Client.Start, Client.handleMail,  *)
(* Client.Close and Client.Recv over the same decoder.  Task 0 is the      *)
(* user's call of Start, task t >= 1 the goroutine running handleMail that *)
(* the t-th dial started; the user's call of Recv runs beside them.  The   *)
(* handshake of init is the one the Init steps above model element by      *)
(* element; here it is one step with its outcomes: an error, or nil with   *)
(* the decoder on the new transport and the jid of the bind reply.         *)
(***************************************************************************)
\* the fields of the model that package gmail does not have or leaves alone
gmailRest == <<errorHandler, mailHandler, orig, tries, offered, errs, log, call>>

\* a nil dereference ends the program: no task takes another step
Panic == [t \in Tasks |-> "panic"]

\* Start returns e in task t: to the user, or to handleMail, which drops the
\* result and returns
gmailStartReturns(t, e) ==
    /\ pc' = [pc EXCEPT ![t] = IF t = 0 THEN "done" ELSE "end"]
    /\ startErr' = IF t = 0 THEN e ELSE startErr

\* the errors init returns: for the account, or for a failed step of the
\* handshake (a failed read, a malformed element)
gmailInitErrors ==
    IF Len(SplitUser(user)) # 2 THEN {UserError(user)}
    ELSE {ErrReset, SyntaxError("EOF")}

\* the jid init leaves in Client.jid when it returns nil: the one of the
\* <bind> of the bind reply, empty without a <bind>
gmailBound == {""} \cup Jids

\* Client.Close: closes the transport, then calls Close on imapc, a method
\* of the IMAP library, which is called on nil when no IMAP client was
\* dialled: it either returns or dereferences the nil.  The task goes on at
\* `after` when Close returns.
gmailClose(t, after) ==
    /\ closed' = closed \cup {conn}
    /\ \/ pc' = [pc EXCEPT ![t] = after]
       \/ /\ imapc = NilClient
          /\ pc' = Panic

\* Client.Start up to self.conn = tlsconn: connect, the TLS handshake and
\* VerifyHostname; a failure returns with conn as it was
gmailStart(t) ==
    /\ pc[t] = IF t = 0 THEN "new" ELSE "start"
    /\ dials < MaxDial
    /\ dials' = dials + 1
    /\ \/ /\ \E e \in {DialError, TLSError} : gmailStartReturns(t, e)
          /\ UNCHANGED conn
       \/ /\ conn' = dials'
          /\ pc' = [pc EXCEPT ![t] = "init"]
          /\ UNCHANGED startErr
    /\ UNCHANGED <<p, jid, user, closed, rx, mails, out, recv, imapc, gmailRest>>

\* Client.Start from self.init to go self.handleMail(): init sets the
\* decoder first; a failure closes the transport and returns the error
gmailInit(t) ==
    /\ pc[t] = "init"
    /\ p' = conn
    /\ \/ /\ \E e \in gmailInitErrors :
                /\ startErr' = IF t = 0 THEN e ELSE startErr
                /\ gmailClose(t, IF t = 0 THEN "done" ELSE "end")
          /\ UNCHANGED jid
       \/ /\ Len(SplitUser(user)) = 2
          /\ jid' \in gmailBound
          /\ pc' = [pc EXCEPT ![t] = "imap", ![dials] = "read"]
          /\ UNCHANGED <<closed, startErr>>
    /\ UNCHANGED <<conn, user, dials, rx, mails, out, recv, imapc, gmailRest>>

\* Client.Start after go self.handleMail(): imap.DialTLS, Login, Select and
\* checkMail; imapc is assigned what DialTLS returned
gmailImap(t) ==
    /\ pc[t] = "imap"
    /\ \/ /\ imapc' = NilClient
          /\ gmailStartReturns(t, <<"dial", "tcp:", "imap.gmail.com:993">>)
       \/ /\ imapc' = ImapClient
          /\ \E e \in {<<"imap:", "NO", "login", "failed">>, NoErr} :
                gmailStartReturns(t, e)
    /\ UNCHANGED <<conn, p, jid, user, closed, dials, rx, mails, out, recv, gmailRest>>

\* Client.handleMail: one iteration of the loop.  Any error of next closes
\* the client and calls Start, after which handleMail returns; a
\* notification for the jid is answered and "NEW MAIL!" is printed.
gmailHandleMail(t) ==
    /\ t \in Loops
    /\ pc[t] = "read"
    /\ \E r \in Reads(p) :
        LET n == next(r) IN
        /\ IF n.err # NoErr
           THEN /\ dials < MaxDial
                /\ gmailClose(t, "start")
                /\ out' = <<E(t, "close", conn, <<>>)>>
                /\ UNCHANGED mails
           ELSE IF IsNewMail(n)
           THEN /\ mails + recv.n < MaxMail
                /\ out' = <<Send(t, NewMailReply(n.v)), E(t, "mail", conn, <<>>)>>
                /\ mails' = mails + 1
                /\ UNCHANGED <<closed, pc>>
           ELSE /\ out' = <<>>
                /\ UNCHANGED <<closed, pc, mails>>
    /\ UNCHANGED <<conn, p, jid, user, dials, rx, startErr, recv, imapc, gmailRest>>

\* the user calls Client.Recv; next on the nil decoder of a client that
\* has not run init dereferences it
gmailRecvCall ==
    /\ recv.pc \in {"idle", "returned"}
    /\ pc # Panic
    /\ IF p = 0
       THEN pc' = Panic /\ recv' = recv
       ELSE pc' = pc /\ recv' = [recv EXCEPT !.pc = "reading", !.ret = ""]
    /\ UNCHANGED <<conn, p, jid, user, closed, dials, rx, startErr, mails, out,
                   imapc, gmailRest>>

\* Client.Recv: one iteration of its loop.  An error is returned, a
\* <message> and a <presence> are returned as events, anything else is
\* dropped and the loop reads on.  recv.n counts the notifications for the
\* jid among the dropped, recv.got is the latest of them.
gmailRecv ==
    /\ recv.pc = "reading"
    /\ pc # Panic
    /\ \E r \in Reads(p) :
        LET n == next(r) IN
        /\ IsNewMail(n) => mails + recv.n < MaxMail
        /\ recv' = [pc |-> IF n.err # NoErr \/ n.local \in {"message", "presence"}
                           THEN "returned" ELSE "reading",
                    got |-> IF IsNewMail(n) THEN r ELSE recv.got,
                    n |-> IF IsNewMail(n) THEN recv.n + 1 ELSE recv.n,
                    ret |-> IF n.err # NoErr THEN "error"
                            ELSE IF n.local = "message" THEN "Chat"
                            ELSE IF n.local = "presence" THEN "Presence"
                            ELSE ""]
    /\ UNCHANGED <<conn, p, jid, user, closed, dials, pc, rx, startErr, mails, out,
                   imapc, gmailRest>>

GmailNext ==
    \/ \E t \in Tasks :
        \/ gmailStart(t)
        \/ gmailInit(t)
        \/ gmailImap(t)
        \/ gmailHandleMail(t)
    \/ gmailRecvCall
    \/ gmailRecv

SpecGmail == Init /\ [][GmailNext]_vars

(***************************************************************************)
(* Client.Close called by the user after the user's call of Start has      *)
(* returned: the transport in Client.conn is closed, and every later read  *)
(* of it fails.  On a Client whose Start failed at the dial conn is nil,   *)
(* and Close dereferences it.                                              *)
(***************************************************************************)
UserClose ==
    /\ pc[0] = "done"
    /\ IF conn = 0
       THEN pc' = Panic /\ closed' = closed
       ELSE pc' = pc /\ closed' = closed \cup {conn}
    /\ UNCHANGED <<conn, p, jid, dials, orig, tries, offered, rx, startErr, errs,
                   mails, log, out, config, call, recv, imapc>>

NextClose == Next \/ UserClose

SpecClose == Init /\ [][NextClose]_vars

(***************************************************************************)
(* Properties.                                                             *)
(***************************************************************************)
IsPrefix(a, b) == Len(a) <= Len(b) /\ \A i \in 1 .. Len(a) : a[i] = b[i]

\* an event without its parameters: the kind of the stanza for a send
Shape(e) ==
    IF e.ev = "send"
    THEN <<"send">> \o SubSeq(e.s, 1, IF Len(e.s) < 3 THEN Len(e.s) ELSE 3)
    ELSE <<e.ev>>

Shapes(l) == [i \in 1 .. Len(l) |-> Shape(l[i])]

\* the events of an attempt other than those of its failure
BeforeFailure(l) == SelectSeq(l, LAMBDA e : e.ev \notin {"init-err", "close"})

AfterAuthOrder ==
    << <<"recv">>, <<"send", "stream:stream">>, <<"recv">>, <<"recv">>,
       <<"send", "iq", "set", "bind">>, <<"recv">>,
       <<"send", "iq", "set", "usersetting">>, <<"recv">>,
       <<"send", "iq", "get", "disco#info">>, <<"recv">>,
       <<"send", "iq", "get", "mail-notify">>, <<"recv">>,
       <<"init-ok">>, <<"go">> >>

PlainOrder ==
    << <<"dial">>, <<"send", "stream:stream">>, <<"recv">>, <<"recv">>,
       <<"send", "auth", "PLAIN">> >> \o AfterAuthOrder

DigestOrder ==
    << <<"dial">>, <<"send", "stream:stream">>, <<"recv">>, <<"recv">>,
       <<"send", "auth", "DIGEST-MD5">>, <<"recv">>,
       <<"send", "response", "digest">>, <<"recv">>,
       <<"send", "response">> >> \o AfterAuthOrder

\* C1: what an attempt has done so far is a prefix of the fixed order of the
\* handshake (stream-open, auth [, response, response], stream-open, bind,
\* usersetting, disco#info, mail-notify query, each stanza after the read of
\* the reply to the one before, init returning nil after the read of the
\* Subscribe reply), and a failure of init ends the attempt.
C1_FixedOrder ==
    /\ \/ IsPrefix(Shapes(BeforeFailure(log)), PlainOrder)
       \/ IsPrefix(Shapes(BeforeFailure(log)), DigestOrder)
    /\ \A i \in 1 .. Len(log) :
        log[i].ev = "init-err" =>
            i = Len(log) - 1 /\ log[Len(log)].ev = "close"

\* a handshake that went through the DIGEST-MD5 exchange and returned nil
C1_Witness ==
    /\ \E i \in 1 .. Len(log) : log[i].ev = "init-ok"
    /\ \E i \in 1 .. Len(log) : log[i].ev = "send" /\ log[i].s = AuthDigest

\* the mechanism of the <auth> that the attempt has emitted ("" if none)
AuthSent ==
    IF \E i \in 1 .. Len(log) : log[i].ev = "send" /\ log[i].s = AuthPlain
    THEN "PLAIN"
    ELSE IF \E i \in 1 .. Len(log) : log[i].ev = "send" /\ log[i].s = AuthDigest
    THEN "DIGEST-MD5"
    ELSE ""

Range(s) == {s[i] : i \in 1 .. Len(s)}

\* the policy "PLAIN if offered anywhere, else DIGEST-MD5 if offered"
PreferPlain(ms) ==
    IF "PLAIN" \in Range(ms) THEN "PLAIN"
    ELSE IF "DIGEST-MD5" \in Range(ms) THEN "DIGEST-MD5"
    ELSE ""

\* the policy "the first offered mechanism that is PLAIN or DIGEST-MD5"
FirstSupported(ms) ==
    LET I == {i \in 1 .. Len(ms) : ms[i] \in {"PLAIN", "DIGEST-MD5"}} IN
    IF I = {} THEN ""
    ELSE ms[CHOOSE i \in I : \A j \in I : i <= j]

\* the mechanism loop has run over the offered list in this state
MechanismChosen ==
    \/ /\ \E t \in Tasks : pc[t] \in {"authresult", "challenge"}
       /\ log[Len(log)].ev = "send"
       /\ log[Len(log)].s \in {AuthPlain, AuthDigest}
    \/ \E i \in 1 .. Len(log) :
          log[i].ev = "init-err" /\ IsPrefix(NoMechanismError(<<>>), log[i].s)

\* the outcome of the selection: the mechanism of the <auth> emitted, or ""
\* with the error that enumerates the offered list and no <auth> emitted
SelectionIs(m) ==
    /\ AuthSent = m
    /\ m = "" => \E i \in 1 .. Len(log) :
                    log[i].ev = "init-err" /\ log[i].s = NoMechanismError(offered)
    /\ m # "" => \A i \in 1 .. Len(log) : log[i].ev # "init-err"

\* C2 as stated: the selection equals "PLAIN if the list contains PLAIN
\* anywhere, otherwise DIGEST-MD5 if the list contains it, otherwise failure".
C2_PlainAnywhere == MechanismChosen => SelectionIs(PreferPlain(offered))

\* C2 as amended: the selection equals the first mechanism of the offered
\* list, in the order offered, that is PLAIN or DIGEST-MD5; if there is none
\* the handshake fails with the error enumerating the list and emits no <auth>.
C2_FirstSupported == MechanismChosen => SelectionIs(FirstSupported(offered))

\* DIGEST-MD5 chosen although PLAIN is offered after it
C2_Witness ==
    /\ MechanismChosen
    /\ offered = <<"DIGEST-MD5", "PLAIN">>
    /\ AuthSent = "DIGEST-MD5"

\* C3: when the <iq> read in the ResourceBind step carries no <bind>, the
\* handshake fails there: the usersetting stanza is not sent after it.
C3_BindRequired ==
    \A i \in 1 .. Len(log) :
        (log[i].ev = "recv" /\ log[i].s = <<"no-bind">>) =>
            /\ i < Len(log) /\ log[i + 1].ev = "init-err"
            /\ \A j \in i + 1 .. Len(log) : log[j].ev # "send"

(***************************************************************************)
(* Steps and states of the handleMail tasks.                               *)
(***************************************************************************)
\* a step that is an iteration of the loop of task t
LoopStep(t) == pc[t] = "loop" /\ \A s \in Tasks \ {t} : pc'[s] = pc[s]

HandshakePcs ==
    {"stream1", "features1", "challenge", "rspauth", "authresult", "stream2",
     "features2", "bind", "setting", "disco", "subscribe"}

\* w contains a and, after it, ends with b
Wraps(w, a, b) ==
    /\ Len(a) + Len(b) <= Len(w)
    /\ SubSeq(w, Len(w) - Len(b) + 1, Len(w)) = b
    /\ \E i \in 1 .. Len(w) - Len(a) - Len(b) + 1 :
           SubSeq(w, i, i + Len(a) - 1) = a

\* the error of the attempt recorded in l: that of init, else that of the dial
NewFailure(l) ==
    IF \E i \in 1 .. Len(l) : l[i].ev = "init-err"
    THEN l[CHOOSE i \in 1 .. Len(l) : l[i].ev = "init-err"].s
    ELSE l[1].s

C4_State ==
    \A t \in Loops :
        /\ tries[t] <= 1
        /\ pc[t] = "dial" =>
              /\ tries[t] = 1
              /\ conn \in closed
              /\ out = <<E(t, "close", conn, <<>>)>>
              /\ orig[t] = next(rx).err
        /\ pc[t] \in HandshakePcs =>
              /\ tries[t] = 1
              /\ log[1] = E(t, "dial", conn, NoErr)
              /\ conn = dials /\ p = conn /\ conn \notin closed

C4_Step ==
    (pc' # pc \/ tries' # tries) =>
    \A t \in Loops :
        /\ (pc[t] \in HandshakePcs /\ pc'[t] = "return") =>
              /\ Cardinality({s \in Loops : pc[s] = "idle" /\ pc'[s] # "idle"}) = 1
              /\ \A s \in Loops : (pc[s] = "idle" /\ pc'[s] # "idle") => pc'[s] = "loop"
              /\ errs' = errs
        /\ (pc[t] \in HandshakePcs \cup {"dial"} /\ pc'[t] = "done") =>
              /\ Len(errs') = Len(errs) + 1
              /\ Wraps(errs'[Len(errs')], orig[t], NewFailure(log'))
              /\ NewFailure(log') # NoErr /\ orig[t] # NoErr
              /\ \A s \in Tasks \ {t} : pc'[s] = pc[s]
        /\ pc[t] = "return" => pc'[t] \in {"return", "done"}
        /\ pc[t] = "done" => pc'[t] = "done" /\ tries'[t] = tries[t]

\* C4: a handleMail task that meets a reset-like decode failure has closed
\* the current transport before it dials, makes one call of Start, which
\* runs the handshake on the newly dialed transport; when that call returns
\* nil exactly one new handleMail task has been started and the old task
\* only returns; when it fails errorHandler is called once with an error that
\* holds the original failure and the new one, and the task never dials again.
C4_Reconnect == []C4_State /\ [][C4_Step]_vars

\* a failed restart: the handshake on the new transport failed and was reported
C4_Witness ==
    \E t \in Loops :
        /\ pc[t] = "done" /\ tries[t] = 1 /\ Len(errs) = 1
        /\ \E i \in 1 .. Len(log) : log[i].ev = "init-err"

\* the element r is an <iq> to the bound JID, of type set, with a new-mail marker
Notification(r) ==
    /\ r.err = NoErr /\ r.bad = ""
    /\ r.space = nsClient /\ r.local = "iq"
    /\ r.to = jid /\ r.type = "set" /\ r.child = "new-mail"

\* C5: every iteration of handleMail that decodes a notification emits one
\* <iq type='result'> and then calls mailHandler once, and the task goes on
\* reading; each notification is handled before the next element is read.
C5_ReplyThenCallback ==
    [][\A t \in Loops :
          (LoopStep(t) /\ Notification(rx')) =>
              /\ Len(out') = 2
              /\ out'[1].ev = "send" /\ SubSeq(out'[1].s, 1, 2) = <<"iq", "result">>
              /\ out'[2].ev = "mail"
              /\ mails' = mails + 1
              /\ pc'[t] = "loop"]_vars

\* the second notification has been answered
C5_Witness == mails = 2 /\ Len(out) = 2 /\ out[2].ev = "mail" /\ Notification(rx)

\* the latest iteration of handleMail emitted a reply
Replied == Len(out) >= 1 /\ out[1].ev = "send"

\* C6 as stated: the reply has from = the account, to = the sender of the
\* notification and id = the id of the notification.
C6_ReplyToSender ==
    Replied => out[1].s = <<"iq", "result", UserStr(user), rx.from, rx.id>>

\* C6 as amended: the reply has from = the account identifier, to = the
\* Client's bound JID (the to of the notification) and id = the id of the
\* notification.
C6_ReplyToBoundJid ==
    Replied => /\ out[1].s = <<"iq", "result", UserStr(user), rx.to, rx.id>>
               /\ rx.to = jid

\* a reply to a notification sent by the domain with an id of its own
C6_Witness == Replied /\ rx.from = "domain" /\ rx.id = "m2" /\ rx.to = Jid2

\* the task has more to do than to return
Running(t) == pc[t] \notin {"idle", "return", "done"}

\* C7: errorHandler is called at most once; after the call no task is
\* reading or restarting and neither callback is called again; a restart that
\* succeeds calls no errorHandler.
C7_OneTerminalError ==
    /\ [](Len(errs) <= 1 /\ (Len(errs) = 1 => \A t \in Tasks : ~Running(t)))
    /\ [][/\ Len(errs) = 1 => errs' = errs /\ mails' = mails
          /\ \A t \in Loops :
                (pc[t] # "return" /\ pc'[t] = "return") => errs' = errs]_vars

\* the error of a session that had mail and reconnected once
C7_Witness == Len(errs) = 1 /\ dials = 2 /\ pc[2] = "done" /\ mails >= 1

NotResetLike(e) == \A i \in 1 .. Len(e) : e[i] \notin {"closed", "reset"}

\* C8: an iteration of handleMail whose decode fails with an error that is
\* not reset-like calls errorHandler once with that error and ends the task;
\* it closes nothing, dials nothing and starts no handshake.
C8_TerminalError ==
    [][\A t \in Loops :
          (LoopStep(t) /\ next(rx').err # NoErr /\ NotResetLike(next(rx').err)) =>
              /\ errs' = Append(errs, next(rx').err)
              /\ pc'[t] = "done"
              /\ closed' = closed /\ dials' = dials /\ conn' = conn /\ p' = p
              /\ tries' = tries /\ log' = log]_vars

\* a task ended by a timeout of the read
C8_Witness ==
    \E t \in Loops : pc[t] = "done" /\ tries[t] = 0 /\ errs = <<ErrTimeout>>

\* the task is blocked in a read of the decode stream
Reading(t) == pc[t] \in HandshakePcs \cup {"loop"}

\* C9: at most one task reads the decode stream; at most one handleMail task
\* has more to do than to return; a handleMail task exists only if the call
\* of Start that started it returned nil.
C9_SingleReader ==
    /\ Cardinality({t \in Tasks : Reading(t)}) <= 1
    /\ Cardinality({t \in Loops : Running(t)}) <= 1
    /\ pc[1] # "idle" => pc[0] = "done" /\ startErr = NoErr
    /\ \A t \in Loops \ {1} :
          pc[t] # "idle" =>
              /\ pc[t - 1] \in {"return", "done"}
              /\ tries[t - 1] = 1 /\ orig[t - 1] = NoErr

\* the old task has yet to return while the new one reads
C9_Witness == pc[1] = "return" /\ pc[2] = "loop"

\* the read of the AuthResult step, as the log records it
AuthRecv(e) == e.ev = "recv" /\ Len(e.s) = 5 /\ e.s[1] = "auth"

IsSuccess(e) == e.s[2] = nsSASL /\ e.s[3] = "success" /\ e.s[5] = ""

StepRecv(e, step) == e.ev = "recv" /\ Len(e.s) >= 1 /\ e.s[1] = step

\* the event is the read of an error of the transport
ReadFailed(e) ==
    /\ e.ev = "recv" /\ Len(e.s) >= 1
    /\ \/ e.s[1] = "read-error"
       \/ e.s[1] = "auth" /\ e.s[2] = ""
       \/ Len(e.s) >= 2 /\ e.s[2] = "read-error"

\* the feature list names the mail-notify extension
ListsNotify(feats) == \E k \in 1 .. Len(feats) : feats[k] = "google:mail:notify"

\* C11: the mail-notify query is sent only after a disco#info result that
\* lists google:mail:notify; a result whose list lacks it (the empty list
\* included) is followed by the error of init, and neither a stanza nor the
\* completion of the handshake follows.
C11_NotifyRequired ==
    \A i \in 1 .. Len(log) :
        /\ (log[i].ev = "send" /\ Len(log[i].s) >= 3 /\ log[i].s[3] = "mail-notify") =>
              /\ i > 1 /\ StepRecv(log[i - 1], "disco")
              /\ ListsNotify(log[i - 1].s[9])
              /\ log[i].s[6] = "mail-request-1"
        /\ (StepRecv(log[i], "disco") /\ ~ListsNotify(log[i].s[9])) =>
              /\ i < Len(log) /\ log[i + 1].ev = "init-err"
              /\ \A j \in i + 1 .. Len(log) : log[j].ev \notin {"send", "init-ok"}

\* a disco#info result that is right in everything but the feature
C11_Witness ==
    \E i \in 1 .. Len(log) :
        /\ StepRecv(log[i], "disco")
        /\ SubSeq(log[i].s, 2, 8) = <<"", nsClient, "iq", "", "domain", jid, "result">>
        /\ log[i].s[9] = <<"http://jabber.org/protocol/disco#info">>
        /\ i < Len(log) /\ log[i + 1].ev = "init-err"

\* the reply of the Subscribe step is the one init asks for
SubscribeAccepted(e) ==
    /\ e.s[2] = "" /\ e.s[3] = "jabber:client" /\ e.s[4] = "iq" /\ e.s[5] = ""
    /\ e.s[6] = UserStr(user) /\ e.s[7] = jid
    /\ e.s[8] = "mail-request-1" /\ e.s[9] = "result"

\* C12: init returns nil only after a Subscribe reply that is a well-formed
\* jabber:client <iq> from the account, to the bound JID, with the id
\* mail-request-1 and the type result; any other reply, and a failed read,
\* is followed by the error of init.
C12_SubscribeReply ==
    \A i \in 1 .. Len(log) :
        /\ log[i].ev = "init-ok" =>
              /\ i > 1 /\ StepRecv(log[i - 1], "subscribe")
              /\ SubscribeAccepted(log[i - 1])
        /\ (StepRecv(log[i], "subscribe") /\ ~SubscribeAccepted(log[i])) =>
              /\ i < Len(log) /\ log[i + 1].ev = "init-err"
              /\ \A j \in i + 1 .. Len(log) : log[j].ev # "init-ok"

\* a Subscribe reply that is right in everything but its id
C12_Witness ==
    \E i \in 1 .. Len(log) :
        /\ StepRecv(log[i], "subscribe")
        /\ SubSeq(log[i].s, 2, 9) =
              <<"", nsClient, "iq", "", UserStr(user), jid, "m2", "result">>
        /\ jid = Jid1
        /\ i < Len(log) /\ log[i + 1].ev = "init-err"

\* C13: when init has returned nil, the JID of the Client is the jid of the
\* <bind> of the <iq> read in the ResourceBind step of the attempt, and the
\* replies of the three later steps were addressed to it.
C13_JidFromBind ==
    (\E i \in 1 .. Len(log) : log[i].ev = "init-ok") =>
        /\ \E i \in 1 .. Len(log) :
              StepRecv(log[i], "bind") /\ log[i].s[2] = jid
        /\ \E i \in 1 .. Len(log) :
              StepRecv(log[i], "setting") /\ log[i].s[6] = jid
        /\ \E i \in 1 .. Len(log) :
              StepRecv(log[i], "disco") /\ log[i].s[7] = jid
        /\ \E i \in 1 .. Len(log) :
              StepRecv(log[i], "subscribe") /\ log[i].s[7] = jid

\* C14: a failed read at any step of init is followed by the error of init;
\* the error is not nil and is what Start returns to its caller; init has
\* closed nothing when it returns, nothing is sent after it, and connect
\* closes the transport of the attempt.
C14_InitFailure ==
    \A i \in 1 .. Len(log) :
        /\ ReadFailed(log[i]) => i < Len(log) /\ log[i + 1].ev = "init-err"
        /\ log[i].ev = "init-err" =>
              /\ log[i].s # NoErr
              /\ i > 1 /\ log[i - 1].ev \in {"recv", "dial"}
              /\ \A j \in 1 .. i - 1 : log[j].ev # "close"
              /\ Len(log) = i + 1
              /\ log[i + 1] = E(log[i].t, "close", log[i].c, <<>>)
              /\ log[i].c = conn /\ conn \in closed
              /\ pc[log[i].t] = "done"
              /\ IF log[i].t = 0 THEN startErr = log[i].s
                 ELSE /\ errs # <<>>
                      /\ Wraps(errs[Len(errs)], orig[log[i].t], log[i].s)

\* a failed read at the CapabilityCheck step, where the error of next is not
\* looked at
C14_Witness ==
    \E i \in 1 .. Len(log) :
        /\ StepRecv(log[i], "disco") /\ log[i].s[2] = "read-error"
        /\ i < Len(log) /\ log[i + 1].ev = "init-err"
        /\ conn \in closed

\* the start element has no type in the switch of next
Unregistered(r) == r.err = NoErr /\ <<r.space, r.local>> \notin Registered

\* C15: for a start element whose name is not registered next returns an
\* error and no value, and a handleMail iteration that reads such an element
\* leaves the loop: it is the element read that ends the task, no reply is
\* sent and mailHandler is not called.
C15_UnregisteredFails ==
    /\ [](\A r \in Elements :
             Unregistered(r) =>
                 /\ next(r).err # NoErr /\ ~next(r).ok
                 /\ next(r).v = El("", ""))
    /\ [][\A t \in Loops :
             (LoopStep(t) /\ Unregistered(rx')) =>
                 /\ pc'[t] \in {"done", "dial"}
                 /\ mails' = mails
                 /\ \A i \in 1 .. Len(out') : out'[i].ev \notin {"send", "mail"}]_vars

\* a task ended by an element of an unknown namespace
C15_Witness ==
    \E t \in Loops :
        /\ pc[t] = "done" /\ tries[t] = 0
        /\ rx = El("urn:unknown", "foo")
        /\ errs = << <<"unexpected", "XMPP", "message", "urn:unknown", "<", "foo", "/>">> >>

\* C18: a handleMail task closes its transport and dials only after a read
\* that failed with an error of the transport; an element that next cannot
\* decode never makes it reconnect.
C18_OnlyTransportErrors ==
    \A t \in Loops : pc[t] = "dial" => rx.err \in {ErrReset, ErrClosed}

\* C19 as stated: when the attempt to reconnect of a handleMail task is over,
\* neither Client.conn nor Client.p is the transport the task closed.
C19_NoStaleReference ==
    \A t \in Loops : (tries[t] = 1 /\ pc[t] # "dial") => conn # t /\ p # t

\* C19 as amended: task t reads transport t; once it has closed it to
\* reconnect nothing is read from it or written to it; Client.conn is still
\* that transport exactly when the dial failed, and Client.p is still its
\* decoder exactly when the dial or the TLS handshake failed.
C19_NoReuse ==
    \A t \in Loops :
        /\ pc[t] = "loop" => conn = t /\ p = t /\ tries[t] = 0
        /\ pc[t] = "dial" => out = <<E(t, "close", t, <<>>)>> /\ t \in closed
        /\ (tries[t] = 1 /\ pc[t] # "dial") =>
              /\ t \in closed
              /\ \A i \in 1 .. Len(log) :
                    log[i].ev \in {"send", "recv"} => log[i].c # t
              /\ \A i \in 1 .. Len(out) : out[i].ev = "send" => out[i].c # t
              /\ conn = t <=> (log[1].t = t /\ log[1].s = DialError)
              /\ p = t <=> (log[1].t = t /\ log[1].s \in {DialError, TLSError})

\* a reconnection that failed at the TLS handshake
C19_Witness ==
    \E t \in Loops :
        /\ tries[t] = 1 /\ pc[t] = "done"
        /\ log[1].s = TLSError /\ p = t /\ conn = t + 1

(***************************************************************************)
(* xmlEscape and saslDigestResponse (under SpecPure).                      *)
(***************************************************************************)
\* the image of one byte
Entity(c) ==
    CASE c = 60 -> <<38, 108, 116, 59>>
      [] c = 62 -> <<38, 103, 116, 59>>
      [] c = 34 -> <<38, 113, 117, 111, 116, 59>>
      [] c = 39 -> <<38, 97, 112, 111, 115, 59>>
      [] c = 38 -> <<38, 97, 109, 112, 59>>
      [] OTHER -> <<c>>

\* where the image of the byte i of s starts in the result, less one
RECURSIVE Offset(_, _)
Offset(s, i) == IF i = 1 THEN 0 ELSE Offset(s, i - 1) + Len(Entity(s[i - 1]))

\* r is the concatenation, in order, of the images of the bytes of s
IsImage(s, r) ==
    /\ Len(r) = Offset(s, Len(s) + 1)
    /\ \A i \in 1 .. Len(s) :
          SubSeq(r, Offset(s, i) + 1, Offset(s, i + 1)) = Entity(s[i])

HasSpecial(s) == \E i \in 1 .. Len(s) : s[i] \in {60, 62, 34, 39, 38}

\* C16: xmlEscape returns the concatenation, in order, of the images of the
\* bytes of its argument; applied to its own result it changes it exactly
\* when the argument holds one of the five characters.
C16_XmlEscape ==
    call.fn = "xmlEscape" =>
        /\ call.n >= 1 => IsImage(call.args[1], call.once)
        /\ call.n = 1 => call.res = call.once
        /\ call.n = 2 =>
              /\ IsImage(call.once, call.res)
              /\ HasSpecial(call.args[1]) => call.res # call.once
              /\ ~HasSpecial(call.args[1]) =>
                    call.res = call.once /\ call.once = call.args[1]

\* & a ' escaped twice
C16_Witness ==
    /\ call.fn = "xmlEscape" /\ call.n = 2
    /\ call.args[1] = <<38, 97, 39>>
    /\ call.once = <<38, 97, 109, 112, 59, 97, 38, 97, 112, 111, 115, 59>>
    /\ call.res # call.once

MD5(x) == <<"md5", x>>
HEX(b) == << <<"hex", b>> >>
Colon == << <<"c", ":">> >>

\* the response of RFC 2831 for the arguments a of saslDigestResponse
Rfc2831(a) ==
    LET A1 == <<MD5(a[1] \o Colon \o a[2] \o Colon \o a[3])>> \o Colon \o a[4]
                \o Colon \o a[5]
        A2 == a[6] \o Colon \o a[7]
    IN HEX(MD5(HEX(MD5(A1)) \o Colon \o a[4] \o Colon \o a[8] \o Colon \o a[5]
               \o Colon \o << <<"c", "auth">> >> \o Colon \o HEX(MD5(A2))))

\* C17: saslDigestResponse returns the response of RFC 2831 for its
\* arguments, and init calls it with the nonce count 00000001, with
\* AUTHENTICATE and with the digest URI xmpp/ followed by the domain of the
\* account.
C17_DigestResponse ==
    (call.fn = "saslDigestResponse" /\ call.n = 1) =>
        /\ call.res = Rfc2831(call.args)
        /\ call.by = "init" =>
              /\ call.args[8] = << <<"c", "00000001">> >>
              /\ call.args[6] = << <<"c", "AUTHENTICATE">> >>
              /\ call.args[7] = << <<"c", "xmpp/">>, <<"c", "domain">> >>
              /\ call.args[1] = << <<"c", "user">> >>

\* the call of init for a challenge with a realm and a nonce
C17_Witness ==
    /\ call.fn = "saslDigestResponse" /\ call.n = 1 /\ call.by = "init"
    /\ call.args[2] # <<>> /\ call.args[4] # <<>> /\ call.args[5] # <<>>

\* C20 (package gmail): handleMail is the only consumer of the decoder after
\* the handshake: no notification for the bound jid is taken from the decoder
\* by Recv, so that each of them is decoded and answered by handleMail.
C20_SoleConsumer == recv.n = 0

\* the read of the EnableNotifications step is the acknowledgment init asks
\* for, and the read of the CapabilityCheck step a disco#info result of the
\* domain that lists google:mail:notify
SettingAccepted(e) ==
    /\ StepRecv(e, "setting")
    /\ e.s[2] = "" /\ e.s[3] = "jabber:client" /\ e.s[4] = "iq" /\ e.s[5] = ""
    /\ e.s[6] = jid /\ e.s[7] = "result"

DiscoAccepted(e) ==
    /\ StepRecv(e, "disco")
    /\ e.s[2] = "" /\ e.s[3] = "jabber:client" /\ e.s[4] = "iq" /\ e.s[5] = ""
    /\ e.s[6] = "domain" /\ e.s[7] = jid /\ e.s[8] = "result"
    /\ ListsNotify(e.s[9])

\* the latest dial is the current transport and its handshake ended with the
\* three confirmations, each read from that transport, and with init
\* returning nil
Confirmed ==
    LET L == Len(log) IN
    /\ L >= 7
    /\ conn = dials /\ p = conn
    /\ \A i \in 1 .. L : log[i].c = conn
    /\ SettingAccepted(log[L - 6])
    /\ DiscoAccepted(log[L - 4])
    /\ StepRecv(log[L - 2], "subscribe") /\ SubscribeAccepted(log[L - 2])
    /\ log[L - 1].ev = "init-ok" /\ log[L].ev = "go"

\* C21: a handleMail task runs its loop, and mailHandler is called, only when
\* the latest handshake on the current transport read the acknowledgment of
\* the setting, a disco#info result listing google:mail:notify and the
\* acknowledgment of the subscription; no task is in a handshake while a loop
\* runs, so an element read during a handshake never reaches mailHandler.
C21_ConfirmedBeforeLoop ==
    /\ [](\A t \in Loops :
             pc[t] = "loop" =>
                 /\ Confirmed
                 /\ \A s \in Tasks : pc[s] \notin HandshakePcs \cup {"dial"})
    /\ [][mails' # mails =>
             /\ Confirmed
             /\ \E t \in Loops : LoopStep(t) /\ pc'[t] = "loop"
             /\ \A s \in Tasks : pc[s] \notin HandshakePcs]_vars

\* after a notification was handed to mailHandler, a reconnection whose
\* EnableNotifications step read an <iq type='set'> for the jid: init failed
\* and mailHandler was not called again
C21_Witness ==
    /\ mails = 1
    /\ \A t \in Loops : pc[t] # "loop"
    /\ \E i \in 1 .. Len(log) :
          /\ StepRecv(log[i], "setting")
          /\ SubSeq(log[i].s, 2, 7) = <<"", nsClient, "iq", "", jid, "set">>
          /\ i < Len(log) /\ log[i + 1].ev = "init-err"

\* C22: after the user's Close the read of a running loop fails with the
\* error of a closed connection, and the loop answers by closing the transport
\* and calling Start; a handleMail task ends only after its call of Start
\* started a new task on a newly dialed transport, or with one call of
\* errorHandler, so that Close never ends a loop silently.
C22_CloseNeverSilent ==
    /\ [](\A t \in Loops :
             /\ pc[t] = "panic" => conn = 0
             /\ pc[t] = "dial" => t \in closed /\ tries[t] = 1
             /\ pc[t] \in HandshakePcs =>
                   /\ tries[t] = 1 /\ conn > t /\ p = conn
                   /\ log[1] = E(t, "dial", conn, NoErr)
             /\ pc[t] = "return" =>
                   /\ tries[t] = 1
                   /\ \E s \in Loops : s > t /\ pc[s] # "idle")
    /\ [][\A t \in Loops :
             /\ (LoopStep(t) /\ p \in closed /\ (pc' # pc \/ rx' # rx)) =>
                   /\ rx' = TErr(ErrClosed)
                   /\ pc'[t] = "dial" /\ out' = <<E(t, "close", conn, <<>>)>>
                   /\ errs' = errs /\ mails' = mails
             /\ (pc[t] # "done" /\ pc'[t] = "done") =>
                   \/ pc[t] = "return" /\ errs' = errs
                   \/ pc[t] # "return" /\ Len(errs') = Len(errs) + 1
             /\ pc[t] = "done" => pc'[t] = "done"]_vars

\* the user closed transport 1 under the loop of task 1, whose read failed
\* with the error of a closed connection and which is about to dial
C22_Witness ==
    /\ pc[1] = "dial" /\ tries[1] = 1
    /\ rx = TErr(ErrClosed)
    /\ errs = <<>>

\* the element is an <iq> for the jid of the Client, of type set, with a
\* <new-mail/>
NotificationFor(r, j) ==
    /\ r.space = "jabber:client" /\ r.local = "iq"
    /\ r.to = j /\ r.type = "set" /\ r.child = "new-mail"

\* C23: an iteration of handleMail that decodes a stanza other than an <iq>
\* of type set with a <new-mail/> for the jid of the Client (a message, a
\* presence, an <iq> of another type, to another address or without the
\* marker) writes nothing, calls neither handler, leaves the jid, the
\* transport, the decoder and the set of closed transports as they are and
\* stays in the loop.
C23_OtherStanzasDropped ==
    [][\A t \in Loops :
          (LoopStep(t) /\ next(rx').err = NoErr /\ ~NotificationFor(rx', jid)) =>
              /\ out' = <<>>
              /\ mails' = mails /\ errs' = errs
              /\ jid' = jid /\ conn' = conn /\ p' = p
              /\ closed' = closed /\ dials' = dials
              /\ pc' = pc]_vars

\* the loop has read an <iq> of type set with a <new-mail/> for another
\* address than the jid, and reads on
C23_Witness ==
    /\ pc[1] = "loop"
    /\ rx.local = "iq" /\ rx.type = "set" /\ rx.child = "new-mail"
    /\ rx.to # jid /\ rx.to # "" /\ rx.bad = ""
    /\ out = <<>> /\ mails = 0 /\ errs = <<>>

\* C24: for a well-formed element whose name is one of the 16 of the switch
\* of next, next returns the name of the element and its decoded value, and
\* no error; stated of the element the loop of handleMail read last.
C24_RegisteredDecoded ==
    (rx.err = NoErr /\ <<rx.space, rx.local>> \in Registered /\ rx.bad = "") =>
        /\ next(rx).err = NoErr /\ next(rx).ok
        /\ next(rx).space = rx.space /\ next(rx).local = rx.local
        /\ next(rx).v = rx

\* the directives of the challenge ds that give the key k a value
Giving(ds, k) == {i \in 1 .. Len(ds) : ds[i].key = k /\ ds[i].eq}

\* C25: the values init takes from the challenge: for a key that one
\* directive gives a value, that value without its double quotes, also when
\* the quoted value holds a comma; for a key that no directive gives a
\* value, the empty string.
C25_ChallengeValues ==
    (call.fn = "challenge" /\ call.n = 1 /\ ~call.res.panic) =>
        \A k \in Keys :
            LET ds == call.args[1] IN
            /\ Giving(ds, k) = {} => call.res.tokens[k] = <<>>
            /\ \A i \in Giving(ds, k) :
                   Giving(ds, k) = {i} => call.res.tokens[k] = ds[i].val

\* C28: the parse of the challenge does not panic, whatever the text.
C28_ParseNeverPanics ==
    (call.fn = "challenge" /\ call.n = 1) => ~call.res.panic

\* the stream s has no start element among its first n tokens
NoStart(s, n) == \A j \in 1 .. n : s[j] # "StartElement"

\* C26: nextStart returns the first start element of the stream, having
\* taken every token before it, or the error of the read when that is not the
\* end-of-document; on a stream that ends in end-of-document without a start
\* element it takes every token and never returns.
C26_NextStart ==
    call.fn = "nextStart" =>
        LET s == call.args[1] IN
        /\ call.n <= Len(s) /\ NoStart(s, call.n - 1)
        /\ call.res = <<>> => NoStart(s, call.n)
        /\ call.res # <<>> =>
              \/ /\ call.res = <<"StartElement", call.n>>
                 /\ call.n >= 1 /\ s[call.n] = "StartElement"
              \/ /\ call.res = <<"error", "error">>
                 /\ call.n = Len(s) /\ NoStart(s, Len(s))
        /\ (call.args[2] = "EOF" /\ NoStart(s, Len(s))) => call.res = <<>>

\* two tokens skipped, the end-of-document read, and no return
C26_Witness ==
    /\ call.fn = "nextStart"
    /\ call.args = << <<"CharData", "EndElement">>, "EOF" >>
    /\ call.n = 2 /\ call.res = <<>>

\* C27: init has no timeout.  A task in a handshake leaves its step, writes
\* a stanza, ends init or calls a handler only in a step that begins with a
\* read of the decoder: an element or an error that the transport delivered.
\* While the task waits, init has not returned, no handleMail loop runs and,
\* in the user's Start, nothing was reported and no task was started.
C27_NoTimeout ==
    /\ [](\A t \in Tasks :
             pc[t] \in HandshakePcs =>
                 /\ \A s \in Loops : pc[s] # "loop"
                 /\ \A i \in 1 .. Len(log) :
                        log[i].ev \notin {"init-ok", "init-err", "go", "close"}
                 /\ t = 0 =>
                       /\ startErr = NoErr /\ errs = <<>> /\ mails = 0
                       /\ \A s \in Loops : pc[s] = "idle")
    /\ [][\A t \in Tasks :
             (/\ pc[t] \in HandshakePcs
              /\ pc'[t] # pc[t] \/ log' # log \/ errs' # errs \/ mails' # mails
                 \/ startErr' # startErr) =>
                 /\ Len(log') > Len(log)
                 /\ log'[Len(log) + 1].ev = "recv"
                 /\ log'[Len(log) + 1].t = t /\ log'[Len(log) + 1].c = p]_vars

\* the user's Start has sent the mail-notify query and waits for the reply
C27_Witness ==
    /\ pc[0] = "subscribe"
    /\ log[Len(log)].ev = "send" /\ log[Len(log)].s[3] = "mail-notify"
    /\ startErr = NoErr /\ errs = <<>> /\ mails = 0
    /\ \A s \in Loops : pc[s] = "idle"

\* the two ends of a reconnection by task t: a new task reads a newly dialed
\* transport after a complete handshake and errorHandler was not called; or
\* errorHandler was called once, task t has ended and no task reads
Reconnected(t) ==
    /\ pc[t] = "return" /\ errs = <<>>
    /\ conn > t /\ pc[conn] = "loop" /\ Confirmed

GaveUp(t) ==
    /\ pc[t] = "done" /\ Len(errs) = 1
    /\ \A s \in Loops : pc[s] # "loop"

\* no task reads in its loop and nothing was handed to errorHandler
Silent == errs = <<>> /\ \A s \in Loops : pc[s] # "loop"

====
